---- MODULE Spec2Model ----
(***************************************************************************)
(* A model of slork, a text adventure engine: the command parser           *)
(* (commands.py), the world model and its validator (world.py), the        *)
(* criteria / effect / resolvable-text evaluators and the game engine      *)
(* (engine.py, logic.py).                                                  *)
(*                                                                         *)
(* Python values are modelled as follows.                                  *)
(*   str            a TLA+ string (characters are read with SubSeq)        *)
(*   Optional[T]    a sequence of length 0 (None) or 1 (the value)         *)
(*   list           a sequence                                             *)
(*   set            a set                                                  *)
(*   dict           a sequence of [k, v] entries in insertion order        *)
(*   dataclass      a record with the dataclass's field names              *)
(*   a raised exception   a result whose status is "raised" and whose      *)
(*                  message is the exception class, together with the      *)
(*                  session state as mutated up to the raise               *)
(***************************************************************************)
EXTENDS Naturals, Sequences, FiniteSets, TLC

VARIABLES
    world,          \* the World the engine was constructed on
    state,          \* GameEngine.state, a GameEngineState
    last_command,   \* GameEngine.last_command
    result,         \* what the last call returned, None before the first call
    call,           \* a call of one of the engine's evaluators, None in a played session
    call_value      \* what that call returned, None before it is made

vars == <<world, state, last_command, result, call, call_value>>

---------------------------------------------------------------------------
(* Python values *)

None == <<>>

Some(v) == <<v>>

IsNone(x) == x = <<>>

Val(x) == x[1]

\* str(x) for an Optional[str] inside an f-string
FmtOpt(x) == IF IsNone(x) THEN "None" ELSE Val(x)

Range(seq) == { seq[i] : i \in DOMAIN seq }

\* x in list
InList(x, seq) == \E i \in DOMAIN seq : seq[i] = x

\* list.remove(x): removes the first occurrence (callers test membership first)
ListRemove(seq, x) ==
    LET i == CHOOSE j \in DOMAIN seq : seq[j] = x /\ \A k \in 1..(j - 1) : seq[k] # x
    IN  SubSeq(seq, 1, i - 1) \o SubSeq(seq, i + 1, Len(seq))

\* [x for x in seq if P(x)]
Filter(seq, P(_)) == SelectSeq(seq, P)

\* a list of lists flattened
RECURSIVE Flatten(_)
Flatten(lists) == IF Len(lists) = 0 THEN <<>> ELSE Head(lists) \o Flatten(Tail(lists))

\* the elements of a set in the order an iteration visits them; Python fixes no
\* order for a set of strings, the model takes one
RECURSIVE SetToSeq(_)
SetToSeq(S) ==
    IF S = {} THEN <<>>
    ELSE <<CHOOSE x \in S : TRUE>> \o SetToSeq(S \ {CHOOSE x \in S : TRUE})

\* dict operations
Keys(d) == [i \in DOMAIN d |-> d[i].k]

KeySet(d) == { d[i].k : i \in DOMAIN d }

Has(d, key) == \E i \in DOMAIN d : d[i].k = key

Get(d, key) == d[CHOOSE i \in DOMAIN d : d[i].k = key].v

Put(d, key, value) ==
    IF Has(d, key)
    THEN [i \in DOMAIN d |-> IF d[i].k = key THEN [k |-> key, v |-> value] ELSE d[i]]
    ELSE Append(d, [k |-> key, v |-> value])

Entry(key, value) == [k |-> key, v |-> value]

---------------------------------------------------------------------------
(* Strings *)

Char(s, i) == SubSeq(s, i, i)

IsSpace(c) == c \in {" ", "\t", "\n", "\r"}

RECURSIVE LStrip(_)
LStrip(s) == IF Len(s) > 0 /\ IsSpace(Char(s, 1)) THEN LStrip(SubSeq(s, 2, Len(s))) ELSE s

RECURSIVE RStrip(_)
RStrip(s) ==
    IF Len(s) > 0 /\ IsSpace(Char(s, Len(s))) THEN RStrip(SubSeq(s, 1, Len(s) - 1)) ELSE s

Strip(s) == LStrip(RStrip(s))

\* str.lower() of one character
LowerChar(c) ==
    CASE c = "A" -> "a" [] c = "B" -> "b" [] c = "C" -> "c" [] c = "D" -> "d"
      [] c = "E" -> "e" [] c = "F" -> "f" [] c = "G" -> "g" [] c = "H" -> "h"
      [] c = "I" -> "i" [] c = "J" -> "j" [] c = "K" -> "k" [] c = "L" -> "l"
      [] c = "M" -> "m" [] c = "N" -> "n" [] c = "O" -> "o" [] c = "P" -> "p"
      [] c = "Q" -> "q" [] c = "R" -> "r" [] c = "S" -> "s" [] c = "T" -> "t"
      [] c = "U" -> "u" [] c = "V" -> "v" [] c = "W" -> "w" [] c = "X" -> "x"
      [] c = "Y" -> "y" [] c = "Z" -> "z" [] OTHER -> c

RECURSIVE Lower(_)
Lower(s) == IF Len(s) = 0 THEN "" ELSE LowerChar(Char(s, 1)) \o Lower(SubSeq(s, 2, Len(s)))

\* str.split(): the maximal runs of non-whitespace characters
RECURSIVE SplitFrom(_, _, _)
SplitFrom(s, i, cur) ==
    IF i > Len(s)
    THEN IF cur = "" THEN <<>> ELSE <<cur>>
    ELSE IF IsSpace(Char(s, i))
         THEN (IF cur = "" THEN <<>> ELSE <<cur>>) \o SplitFrom(s, i + 1, "")
         ELSE SplitFrom(s, i + 1, cur \o Char(s, i))

Split(s) == SplitFrom(s, 1, "")

\* sep.join(parts)
RECURSIVE Join(_, _)
Join(parts, sep) ==
    IF Len(parts) = 0 THEN ""
    ELSE IF Len(parts) = 1 THEN parts[1]
    ELSE parts[1] \o sep \o Join(Tail(parts), sep)

strip_quotes(s) ==
    IF Len(s) >= 2 /\ Char(s, 1) = Char(s, Len(s)) /\ Char(s, 1) \in {"'", "\""}
    THEN SubSeq(s, 2, Len(s) - 1)
    ELSE s

---------------------------------------------------------------------------
(* logic.py, world.py: the world data model *)

Criteria(requires_flags, blocking_flags, requires_inventory, requires_companions) ==
    [requires_flags |-> requires_flags, blocking_flags |-> blocking_flags,
     requires_inventory |-> requires_inventory, requires_companions |-> requires_companions]

ConditionalText(text, criteria) == [text |-> text, criteria |-> criteria]

\* ResolvableText = str | list[ConditionalText]
PlainText(text) == [kind |-> "str", text |-> text, clauses |-> <<>>]

ClauseList(clauses) == [kind |-> "list", text |-> "", clauses |-> clauses]

\* Python truth value of an Optional[ResolvableText]: None, "" and [] are false
TextTruthy(t) ==
    /\ ~IsNone(t)
    /\ IF Val(t).kind = "str" THEN Val(t).text # "" ELSE Len(Val(t).clauses) > 0

\* Python truth value of an Optional[str]
StrTruthy(x) == ~IsNone(x) /\ Val(x) # ""

Effect(set_flags, clear_flags) == [set_flags |-> set_flags, clear_flags |-> clear_flags]

Item(name, description, location_description, portable, aliases) ==
    [name |-> name, description |-> description,
     location_description |-> location_description, portable |-> portable,
     aliases |-> aliases]

Exit(to, description, criteria, blocked_description) ==
    [to |-> to, description |-> description, criteria |-> criteria,
     blocked_description |-> blocked_description]

Location(name, description, exits, items) ==
    [name |-> name, description |-> description, exits |-> exits, items |-> items]

NPC(persona, sample_lines, quest_hook) ==
    [persona |-> persona, sample_lines |-> sample_lines, quest_hook |-> quest_hook]

Interaction(verb, item, target, criteria, effect, message, dialog, consumes, repeatable) ==
    [verb |-> verb, item |-> item, target |-> target, criteria |-> criteria,
     effect |-> effect, message |-> message, dialog |-> dialog, consumes |-> consumes,
     repeatable |-> repeatable]

\* dialog.py
DialogTree(internal, criteria, jump_target, player_narrative, npc_narrative, effect, jump, responses) ==
    [internal |-> internal, criteria |-> criteria, jump_target |-> jump_target,
     player_narrative |-> player_narrative, npc_narrative |-> npc_narrative,
     effect |-> effect, jump |-> jump, responses |-> responses]

Header(title, start, initial_inventory, initial_companions, intro_text) ==
    [title |-> title, start |-> start, initial_inventory |-> initial_inventory,
     initial_companions |-> initial_companions, intro_text |-> intro_text]

World(header, flags, items, locations, npcs, interactions) ==
    [world |-> header, flags |-> flags, items |-> items, locations |-> locations,
     npcs |-> npcs, interactions |-> interactions]

---------------------------------------------------------------------------
(* The worlds the engine is run on.  Each is a World as load_world builds it. *)

NoCriteria == Criteria({}, {}, {}, {})

RequiresFlags(flags) == Some(Criteria(flags, {}, {}, {}))

BlockedByFlags(flags) == Some(Criteria({}, flags, {}, {}))

\* A companion that can be carried: an NPC whose item is portable.
Cottage ==
    World(
        Header("Cottage", "hall", <<>>, <<"cat">>, Some("You wake up.  ")),
        {},
        << Entry("cat", Item("Cat", "A grey cat.", None, TRUE, <<>>)) >>,
        << Entry("hall", Location("Hall", "A bare hall. ",
                    << Entry("north", Exit("garden", "a door", None, None)) >>, <<>>)),
           Entry("garden", Location("Garden", "An overgrown garden.",
                    << Entry("south", Exit("hall", "", None, None)) >>, <<>>)) >>,
        << Entry("cat", NPC(Some("aloof"), <<"Meow.">>, None)) >>,
        <<>>)

\* An NPC recruited by an interaction's effect, a gated exit, a non-repeatable
\* and a repeatable interaction.
Kennel ==
    World(
        Header("Kennel", "porch", <<>>, <<>>, None),
        {"gate_open", "companion:dog"},
        << Entry("dog", Item("Dog", "A sleepy dog.",
                    Some(ClauseList(<< ConditionalText("A dog dozes here.",
                                                       BlockedByFlags({"gate_open"})),
                                       ConditionalText("A dog watches the gate.", None) >>)),
                    FALSE, <<"hound">>)),
           Entry("gate", Item("Gate", "An iron gate.", Some(PlainText("A gate bars the way east.")),
                    FALSE, <<>>)),
           Entry("bell", Item("Bell", "A brass bell.", None, FALSE, <<>>)) >>,
        << Entry("porch", Location("Porch", "A wooden porch.",
                    << Entry("east", Exit("yard", "the yard", RequiresFlags({"gate_open"}),
                                          Some("The gate is closed."))) >>,
                    <<"gate", "bell">>)),
           Entry("yard", Location("Yard", "A muddy yard.",
                    << Entry("west", Exit("porch", "the porch", None, None)) >>,
                    <<"dog">>)) >>,
        << Entry("dog", NPC(None, <<>>, Some("Wants a walk."))) >>,
        << Entry("open_gate",
                 Interaction("open", "gate", None, None, Some(Effect({"gate_open"}, {})),
                             Some(PlainText("The gate creaks open.")), None, FALSE, FALSE)),
           Entry("ring_bell",
                 Interaction("use", "bell", None, None, Some(Effect({"companion:dog"}, {})),
                             Some(ClauseList(<< ConditionalText("The dog pricks up its ears.",
                                                   BlockedByFlags({"gate_open"})),
                                                ConditionalText("The dog trots to your side.",
                                                   None) >>)),
                             None, FALSE, TRUE)) >>)

\* Two portable items that share an alias, a consuming interaction, and two
\* interactions on the same (verb, item, target) told apart by their criteria.
Cellar ==
    World(
        Header("Cellar", "cellar", <<"iron">>, <<>>, None),
        {"chest_open"},
        << Entry("brass", Item("Brass Key", "A small brass key.", None, TRUE, <<"key">>)),
           Entry("iron", Item("Iron Key", "A heavy iron key.", None, TRUE, <<"key">>)),
           Entry("chest", Item("Chest", "An oak chest.", None, FALSE, <<>>)) >>,
        << Entry("cellar", Location("Cellar", "A damp cellar.",
                    << Entry("up", Exit("cellar", "a ladder", RequiresFlags({"chest_open"}),
                                        Some("The hatch will not budge."))) >>,
                    <<"brass", "chest">>)) >>,
        <<>>,
        << Entry("unlock",
                 Interaction("use", "brass", Some("chest"), None,
                             Some(Effect({"chest_open"}, {})),
                             Some(PlainText("The lock clicks and the key snaps.")), None,
                             TRUE, FALSE)),
           Entry("open_locked",
                 Interaction("open", "chest", None, BlockedByFlags({"chest_open"}), None,
                             Some(PlainText("It is locked.")), None, FALSE, TRUE)),
           Entry("open_unlocked",
                 Interaction("open", "chest", None, RequiresFlags({"chest_open"}), None,
                             Some(PlainText("The chest is empty.")), None, FALSE, FALSE)) >>)

\* A world with authoring defects: an exit to a location that is not declared,
\* and a location that lists an item that is not declared.
Ruin ==
    World(
        Header("Ruin", "ruin", <<"torch">>, <<"bat">>, None),
        {},
        << Entry("torch", Item("Torch", "A burning torch.", None, TRUE, <<>>)),
           Entry("bat", Item("Bat", "A tame bat.", None, FALSE, <<>>)) >>,
        << Entry("ruin", Location("Ruin", "A ruined tower.",
                    << Entry("north", Exit("nowhere", "a stair", None, None)),
                       Entry("down", Exit("crypt", "a trapdoor", None, None)) >>,
                    <<>>)),
           Entry("crypt", Location("Crypt", "A cold crypt.",
                    << Entry("up", Exit("ruin", "a ladder", None, None)) >>,
                    <<"phantom">>)) >>,
        << Entry("bat", NPC(None, <<>>, None)) >>,
        <<>>)

\* the leaf of a dialog tree
DialogLeaf(internal, criteria, jump_target, npc_narrative, jump) ==
    DialogTree(internal, criteria, jump_target, None, npc_narrative, None, jump, <<>>)

\* Two interactions on the same (verb, item, target) that are both satisfied, an
\* interaction that carries a dialog tree and an interaction authored for talk.
Shrine ==
    World(
        Header("Shrine", "nave", <<"incense">>, <<>>, None),
        {"prayed", "blessed"},
        << Entry("altar", Item("Altar", "A stone altar.", None, FALSE, <<>>)),
           Entry("incense", Item("Incense", "A stick of incense.", None, TRUE, <<>>)),
           Entry("monk", Item("Monk", "An old monk.", None, FALSE, <<>>)) >>,
        << Entry("nave", Location("Nave", "A quiet nave.",
                    << Entry("out", Exit("nave", "the porch", None, None)) >>,
                    <<"altar", "monk">>)) >>,
        << Entry("monk", NPC(Some("serene"), <<>>, None)) >>,
        << Entry("pray",
                 Interaction("use", "altar", None, None, Some(Effect({"prayed"}, {})),
                             Some(PlainText("You kneel and pray.")), None, FALSE, FALSE)),
           Entry("pray_again",
                 Interaction("use", "altar", None, None, None,
                             Some(PlainText("You pray once more.")), None, FALSE, TRUE)),
           Entry("bless",
                 Interaction("give", "incense", Some("monk"), None, None, None,
                     Some(DialogTree(FALSE, None, None,
                              Some(PlainText("You hold out the incense.")),
                              Some(PlainText("The monk lights it.")),
                              Some(Effect({"blessed"}, {})), None,
                              << Entry("thanks",
                                       DialogLeaf(FALSE, RequiresFlags({"prayed"}), None,
                                                  Some(PlainText("Go in peace.")), None)),
                                 Entry("relic",
                                       DialogLeaf(TRUE, None, Some("relic"),
                                                  Some(PlainText("It lies below.")), None)),
                                 Entry("ask",
                                       DialogLeaf(FALSE, None, None, None,
                                                  Some(PlainText("relic")))) >>)),
                     TRUE, FALSE)),
           Entry("greet",
                 Interaction("talk", "monk", None, None, None,
                             Some(PlainText("The monk nods.")), None, FALSE, TRUE)) >>)

\* A consuming interaction on a companion that can be carried.
Dovecote ==
    World(
        Header("Dovecote", "loft", <<>>, <<"dove">>, None),
        {},
        << Entry("dove", Item("Dove", "A white dove.", None, TRUE, <<>>)) >>,
        << Entry("loft", Location("Loft", "A dusty loft.",
                    << Entry("down", Exit("yard", "a ladder", None, None)) >>, <<>>)),
           Entry("yard", Location("Yard", "A paved yard.",
                    << Entry("up", Exit("loft", "a ladder", None, None)) >>, <<>>)) >>,
        << Entry("dove", NPC(None, <<>>, None)) >>,
        << Entry("release",
                 Interaction("use", "dove", None, None, None,
                             Some(PlainText("The dove flies off.")), None, TRUE, FALSE)) >>)

Worlds == {Cottage, Kennel, Cellar, Ruin, Shrine, Dovecote}

---------------------------------------------------------------------------
(* commands.py *)

VALID_VERBS ==
    {"look", "inventory", "go", "take", "drop", "use", "open", "close", "examine",
     "talk", "give"}

VERB_ALIASES ==
    << Entry("l", "look"), Entry("i", "inventory"), Entry("inv", "inventory"),
       Entry("get", "take"), Entry("pickup", "take"), Entry("pick", "take") >>

DIRECTION_ALIASES ==
    << Entry("n", "north"), Entry("s", "south"), Entry("e", "east"), Entry("w", "west"),
       Entry("u", "up"), Entry("d", "down"), Entry("ne", "northeast"),
       Entry("nw", "northwest"), Entry("se", "southeast"), Entry("sw", "southwest"),
       Entry("north", "north"), Entry("south", "south"), Entry("east", "east"),
       Entry("west", "west"), Entry("up", "up"), Entry("down", "down"),
       Entry("northeast", "northeast"), Entry("northwest", "northwest"),
       Entry("southeast", "southeast"), Entry("southwest", "southwest") >>

ParsedCommand(raw, verb, main_noun, target_noun, error) ==
    [raw |-> raw, verb |-> verb, main_noun |-> main_noun, target_noun |-> target_noun,
     error |-> error]

\* a remainder that keeps a leading "the"
SkipTheKept(tokens) == tokens

\* remainder with a leading "the" skipped
SkipThe(tokens) == IF Len(tokens) > 0 /\ tokens[1] = "the" THEN Tail(tokens) ELSE tokens

\* remainder.index(word)
IndexOf(seq, x) == CHOOSE j \in DOMAIN seq : seq[j] = x /\ \A k \in 1..(j - 1) : seq[k] # x

\* a "verb object on target" branch that takes either joining word from any verb
ParseJoinedAnyVerb(raw, verb_token, verb, remainder, joining_word) ==
    LET on_index == IndexOf(remainder, joining_word)
        main_noun == Join(SubSeq(remainder, 1, on_index - 1), " ")
        target_remainder == SkipThe(SubSeq(remainder, on_index + 1, Len(remainder)))
        missing_target == IF verb = "give" \/ verb = "talk" THEN "whom" ELSE "what"
    IN  IF Len(target_remainder) = 0
        THEN ParsedCommand(raw, Some(verb), Some(main_noun), None,
                Some(IF main_noun # ""
                     THEN verb_token \o " the " \o main_noun \o " " \o joining_word
                              \o " " \o missing_target \o "?"
                     ELSE verb_token \o " " \o joining_word \o " " \o missing_target \o "?"))
        ELSE IF main_noun = ""
        THEN ParsedCommand(raw, Some(verb), Some(Join(target_remainder, " ")), None, None)
        ELSE ParsedCommand(raw, Some(verb), Some(main_noun),
                           Some(Join(target_remainder, " ")), None)

\* a "verb object on target" branch that leaves a target after an empty main
\* noun where it is
ParseJoinedUnpromoted(raw, verb_token, verb, remainder, joining_word) ==
    IF joining_word = "on" /\ verb # "use"
    THEN ParsedCommand(raw, Some(verb), None, None, Some("Invalid command."))
    ELSE IF joining_word = "to" /\ verb \notin {"talk", "give"}
    THEN ParsedCommand(raw, Some(verb), None, None, Some("Invalid command."))
    ELSE
      LET on_index == IndexOf(remainder, joining_word)
          main_noun == Join(SubSeq(remainder, 1, on_index - 1), " ")
          target_remainder == SkipThe(SubSeq(remainder, on_index + 1, Len(remainder)))
          missing_target == IF verb = "give" \/ verb = "talk" THEN "whom" ELSE "what"
      IN  IF Len(target_remainder) = 0
          THEN ParsedCommand(raw, Some(verb), Some(main_noun), None,
                  Some(IF main_noun # ""
                       THEN verb_token \o " the " \o main_noun \o " " \o joining_word
                                \o " " \o missing_target \o "?"
                       ELSE verb_token \o " " \o joining_word \o " " \o missing_target \o "?"))
          ELSE ParsedCommand(raw, Some(verb), Some(main_noun),
                             Some(Join(target_remainder, " ")), None)

\* the "verb object on target" branch of parse_command
ParseJoined(raw, verb_token, verb, remainder, joining_word) ==
    IF joining_word = "on" /\ verb # "use"
    THEN ParsedCommand(raw, Some(verb), None, None, Some("Invalid command."))
    ELSE IF joining_word = "to" /\ verb \notin {"talk", "give"}
    THEN ParsedCommand(raw, Some(verb), None, None, Some("Invalid command."))
    ELSE
      LET on_index == IndexOf(remainder, joining_word)
          main_noun == Join(SubSeq(remainder, 1, on_index - 1), " ")
          target_remainder == SkipThe(SubSeq(remainder, on_index + 1, Len(remainder)))
          missing_target == IF verb = "give" \/ verb = "talk" THEN "whom" ELSE "what"
      IN  IF Len(target_remainder) = 0
          THEN ParsedCommand(raw, Some(verb), Some(main_noun), None,
                  Some(IF main_noun # ""
                       THEN verb_token \o " the " \o main_noun \o " " \o joining_word
                                \o " " \o missing_target \o "?"
                       ELSE verb_token \o " " \o joining_word \o " " \o missing_target \o "?"))
          ELSE LET target_noun == Join(target_remainder, " ")
               IN  IF main_noun = ""
                   THEN ParsedCommand(raw, Some(verb), Some(target_noun), None, None)
                   ELSE ParsedCommand(raw, Some(verb), Some(main_noun), Some(target_noun), None)

parse_command(raw_in) ==
    LET raw == Strip(strip_quotes(Strip(raw_in)))
    IN  IF raw = ""
        THEN ParsedCommand(raw, None, None, None, Some("No command provided."))
        ELSE
          LET tokens == [i \in DOMAIN Split(raw) |-> Lower(Split(raw)[i])]
              verb_token == tokens[1]
          IN  IF Has(DIRECTION_ALIASES, verb_token)
              THEN ParsedCommand(raw, Some("go"), Some(Get(DIRECTION_ALIASES, verb_token)),
                                 None, None)
              ELSE
                LET verb == IF Has(VERB_ALIASES, verb_token)
                            THEN Get(VERB_ALIASES, verb_token) ELSE verb_token
                IN  IF verb \notin VALID_VERBS
                    THEN ParsedCommand(raw, None, None, None,
                                       Some("Unknown verb '" \o verb_token \o "'."))
                    ELSE IF verb \in {"look", "inventory"}
                    THEN ParsedCommand(raw, Some(verb), None, None, None)
                    ELSE
                      LET remainder == SkipThe(Tail(tokens))
                          missing_object == IF verb = "talk" THEN "to whom"
                                            ELSE IF verb = "go" THEN "where" ELSE "what"
                      IN  IF Len(remainder) = 0
                          THEN ParsedCommand(raw, Some(verb), None, None,
                                  Some(verb_token \o " " \o missing_object \o "?"))
                          ELSE IF InList("on", remainder)
                          THEN ParseJoined(raw, verb_token, verb, remainder, "on")
                          ELSE IF InList("to", remainder)
                          THEN ParseJoined(raw, verb_token, verb, remainder, "to")
                          ELSE ParsedCommand(raw, Some(verb), Some(Join(remainder, " ")),
                                             None, None)

---------------------------------------------------------------------------
(* world.py: World.validate *)

\* what a validation step adds to the WorldValidationState
Validation(issues, ref_flags, ref_items) ==
    [issues |-> issues, ref_flags |-> ref_flags, ref_items |-> ref_items,
     dialog_jump_targets |-> {}, dialog_jumps |-> {}]

\* a step that declares jump targets and names jumps
DialogValidation(issues, dialog_jump_targets, dialog_jumps) ==
    [issues |-> issues, ref_flags |-> {}, ref_items |-> {},
     dialog_jump_targets |-> dialog_jump_targets, dialog_jumps |-> dialog_jumps]

NoIssue == Validation(<<>>, {}, {})

Issue(message) == Validation(<<message>>, {}, {})

IssueIf(condition, message) == IF condition THEN Issue(message) ELSE NoIssue

\* the steps in the order they run: issues are appended, references added
MergedSteps(s) ==
    [issues |-> Flatten([i \in DOMAIN s |-> s[i].issues]),
     ref_flags |-> UNION { s[i].ref_flags : i \in DOMAIN s },
     ref_items |-> UNION { s[i].ref_items : i \in DOMAIN s },
     dialog_jump_targets |-> UNION { s[i].dialog_jump_targets : i \in DOMAIN s },
     dialog_jumps |-> UNION { s[i].dialog_jumps : i \in DOMAIN s }]

\* every step runs once
Validations(steps) == CHOOSE merged \in { MergedSteps(s) : s \in {steps} } : TRUE

\* for flag in flags: ref_flags.add(flag); an issue when it is not declared
validate_flags(w, flags, what, owner_desc) ==
    Validations([i \in DOMAIN SetToSeq(flags) |->
        Validation(IF SetToSeq(flags)[i] \notin w.flags
                   THEN <<what \o " '" \o SetToSeq(flags)[i] \o "' for " \o owner_desc
                            \o " was not found in 'flags' list.">>
                   ELSE <<>>,
                   {SetToSeq(flags)[i]}, {})])

required_item_issues(w, item_id, owner_desc) ==
    IF ~Has(w.items, item_id)
    THEN <<"Required item '" \o item_id \o "' for " \o owner_desc
              \o " was not found in 'items' list.">>
    ELSE IF ~Get(w.items, item_id).portable
    THEN <<"Required item '" \o item_id \o "' ('" \o Get(w.items, item_id).name
              \o "') for " \o owner_desc \o " is not portable.">>
    ELSE <<>>

required_companion_issues(w, npc_id, owner_desc) ==
    (IF ~Has(w.items, npc_id)
     THEN <<"Required companion '" \o npc_id \o "' for " \o owner_desc
               \o " was not found in 'items' list.">>
     ELSE <<>>)
    \o (IF ~Has(w.npcs, npc_id)
        THEN <<"Required companion '" \o npc_id \o "' for " \o owner_desc
                  \o " was not found in 'NPCs' list.">>
        ELSE <<>>)

validate_criteria(w, criteria, owner_desc) ==
    Validations(<<
        validate_flags(w, criteria.requires_flags, "Required flag", owner_desc),
        validate_flags(w, criteria.blocking_flags, "Blocking flag", owner_desc),
        Validations([i \in DOMAIN SetToSeq(criteria.requires_inventory) |->
            Validation(required_item_issues(w, SetToSeq(criteria.requires_inventory)[i],
                                            owner_desc),
                       {}, {SetToSeq(criteria.requires_inventory)[i]})]),
        Validations([i \in DOMAIN SetToSeq(criteria.requires_companions) |->
            Validation(required_companion_issues(w, SetToSeq(criteria.requires_companions)[i],
                                                 owner_desc),
                       {}, {SetToSeq(criteria.requires_companions)[i]})]) >>)

\* if criteria: validate_criteria(criteria, ...)
validate_opt_criteria(w, criteria, owner_desc) ==
    IF IsNone(criteria) THEN NoIssue ELSE validate_criteria(w, Val(criteria), owner_desc)

validate_effect(w, effect, owner_desc) ==
    Validations(<< validate_flags(w, effect.set_flags, "Flag to set", owner_desc),
                   validate_flags(w, effect.clear_flags, "Flag to clear", owner_desc) >>)

validate_conditional_text(w, text, owner_desc) ==
    validate_opt_criteria(w, text.criteria,
                          owner_desc \o " criteria for '" \o text.text \o "'")

\* clause i of the list (enumerate counts from 1): a clause without a criteria
\* is reported when i < len(text) - 1
validate_clause(w, clauses, i, owner_desc) ==
    Validations(<<
        validate_conditional_text(w, clauses[i],
                                  "clause " \o ToString(i) \o " of " \o owner_desc),
        IssueIf(i < Len(clauses) - 1 /\ IsNone(clauses[i].criteria),
                "clause " \o ToString(i) \o " of " \o owner_desc
                    \o " does not have a criteria. Subsequent clauses will never be considered.")
    >>)

validate_resolvable_text(w, text, owner_desc) ==
    IF ~TextTruthy(text) \/ Val(text).kind = "str" THEN NoIssue
    ELSE Validations(
            [i \in DOMAIN Val(text).clauses |->
                validate_clause(w, Val(text).clauses, i, owner_desc)]
            \o << IssueIf(~IsNone(Val(text).clauses[Len(Val(text).clauses)].criteria),
                          "Last clause of resolvable text must not have a criteria in "
                              \o owner_desc) >>)

\* the header's initial companions and initial inventory
validate_header(w) ==
    Validations(
        [i \in DOMAIN w.world.initial_companions |->
            Validation(IF ~Has(w.npcs, w.world.initial_companions[i])
                       THEN <<"Initial companion '" \o w.world.initial_companions[i]
                                 \o "' was not found in the 'npcs' list.">>
                       ELSE <<>>,
                       {}, {w.world.initial_companions[i]})]
        \o
        [i \in DOMAIN w.world.initial_inventory |->
            Validation(IF ~Has(w.items, w.world.initial_inventory[i])
                       THEN <<"Initial inventory item '" \o w.world.initial_inventory[i]
                                 \o "' was not found in the 'items' list.">>
                       ELSE IF ~Get(w.items, w.world.initial_inventory[i]).portable
                       THEN <<"Initial inventory item '" \o w.world.initial_inventory[i]
                                 \o "' is not marked as portable.">>
                       ELSE <<>>,
                       {}, {w.world.initial_inventory[i]})])

\* item_locations[item_id] when item j of location i is reached: the location
\* the item was last seen in, None when it has not been seen
item_location(w, i, j) ==
    IF \E j2 \in 1..(j - 1) : w.locations[i].v.items[j2] = w.locations[i].v.items[j]
    THEN Some(w.locations[i].k)
    ELSE IF \E i2 \in 1..(i - 1) : InList(w.locations[i].v.items[j], w.locations[i2].v.items)
    THEN Some(w.locations[CHOOSE i2 \in 1..(i - 1) :
                   /\ InList(w.locations[i].v.items[j], w.locations[i2].v.items)
                   /\ \A i3 \in (i2 + 1)..(i - 1) :
                          ~InList(w.locations[i].v.items[j], w.locations[i3].v.items)].k)
    ELSE None

validate_location_item(w, i, j, loc_id, item_id) ==
    Validations(<<
        Validation(<<>>, {}, {item_id}),
        IssueIf(~Has(w.items, item_id),
                "Item '" \o item_id \o "' in location '" \o loc_id
                    \o "' was not found in the 'items' list."),
        IssueIf(InList(item_id, w.world.initial_inventory),
                "Item '" \o item_id \o "' in location '" \o loc_id
                    \o "' is also in the initial inventory list."),
        IssueIf(~IsNone(item_location(w, i, j)),
                "Item '" \o item_id \o "' in location '" \o loc_id
                    \o "' is also in location '" \o FmtOpt(item_location(w, i, j)) \o "'.") >>)

validate_exit(w, loc_id, exit_id, exit) ==
    Validations(<<
        IssueIf(~Has(w.locations, exit.to),
                "'" \o exit_id \o "' exit in location '" \o loc_id
                    \o "' points to invalid location '" \o exit.to \o "'."),
        IssueIf(~IsNone(exit.criteria) /\ ~StrTruthy(exit.blocked_description),
                "'" \o exit_id \o "' exit in location '" \o loc_id
                    \o "' has a criteria, but no blocked_description."),
        IssueIf(StrTruthy(exit.blocked_description) /\ IsNone(exit.criteria),
                "'" \o exit_id \o "' exit in location '" \o loc_id
                    \o "' has blocked_description, but no criteria."),
        validate_opt_criteria(w, exit.criteria,
                              "'" \o exit_id \o "' exit criteria in location '"
                                  \o loc_id \o "'") >>)

validate_location(w, i) ==
    Validations(
        [j \in DOMAIN w.locations[i].v.items |->
            validate_location_item(w, i, j, w.locations[i].k, w.locations[i].v.items[j])]
        \o << IssueIf(Len(w.locations[i].v.exits) = 0,
                      "Location '" \o w.locations[i].k \o "' has no exits.") >>
        \o [e \in DOMAIN w.locations[i].v.exits |->
               validate_exit(w, w.locations[i].k, w.locations[i].v.exits[e].k,
                             w.locations[i].v.exits[e].v)])

validate_item(w, item_id, item) ==
    IF TextTruthy(item.location_description)
    THEN validate_resolvable_text(w, item.location_description,
                                  "Item '" \o item_id \o "' location_description")
    ELSE NoIssue

validate_npc(w, npc_id) ==
    IssueIf(~Has(w.items, npc_id),
            "NPC '" \o npc_id \o "' does not have a corresponding item in the 'items' list.")

\* the jump values of a node: the text of every clause of a list, or the string
dialog_jump_values(jump) ==
    IF Val(jump).kind = "list"
    THEN { Val(jump).clauses[i].text : i \in DOMAIN Val(jump).clauses }
    ELSE {Val(jump).text}

\* validate_dialog_tree without the visit of the responses; seen is
\* state.dialog_jump_targets when the node is reached
validate_dialog_node(w, tree, seen, owner_desc) ==
    Validations(<<
        IssueIf(~TextTruthy(tree.jump) /\ ~TextTruthy(tree.npc_narrative),
                owner_desc \o " must have a 'npc_narrative' or a 'jump'."),
        IssueIf(tree.internal /\ ~StrTruthy(tree.jump_target),
                owner_desc \o " - 'internal' dialog nodes must have a 'jump_target'."),
        IssueIf(tree.internal /\ ~IsNone(tree.criteria),
                owner_desc \o " - 'internal' dialog nodes cannot have a 'criteria'."),
        IssueIf(TextTruthy(tree.jump) /\ Len(tree.responses) > 0,
                owner_desc \o " cannot have 'responses' and a 'jump'."),
        IF StrTruthy(tree.jump_target)
        THEN DialogValidation(IF Val(tree.jump_target) \in seen
                              THEN <<owner_desc \o " has a duplicate jump target.">>
                              ELSE <<>>,
                              {Val(tree.jump_target)}, {})
        ELSE NoIssue,
        IF TextTruthy(tree.jump)
        THEN Validations(<< validate_resolvable_text(w, tree.jump, owner_desc \o " jump"),
                            DialogValidation(<<>>, {}, dialog_jump_values(tree.jump)) >>)
        ELSE NoIssue,
        IF TextTruthy(tree.npc_narrative)
        THEN validate_resolvable_text(w, tree.npc_narrative, owner_desc \o " npc_narrative")
        ELSE NoIssue,
        IF TextTruthy(tree.player_narrative)
        THEN validate_resolvable_text(w, tree.player_narrative,
                                      owner_desc \o " player_narrative")
        ELSE NoIssue,
        validate_opt_criteria(w, tree.criteria, owner_desc \o " criteria"),
        IF IsNone(tree.effect) THEN NoIssue
        ELSE validate_effect(w, Val(tree.effect), owner_desc \o " effect") >>)

RECURSIVE validate_dialog_tree(_, _, _, _)
RECURSIVE validate_responses(_, _, _, _)

\* the steps of a visit followed by the visit of the responses that remain
validate_responses_after(w, responses, seen, owner_desc, first) ==
    CHOOSE both \in
        { Validations(<< f, validate_responses(w, responses,
                                               seen \cup f.dialog_jump_targets,
                                               owner_desc) >>) : f \in {first} } : TRUE

\* for response_id, response in tree.responses.items(): validate_dialog_tree
validate_responses(w, responses, seen, owner_desc) ==
    IF Len(responses) = 0 THEN NoIssue
    ELSE validate_responses_after(
             w, Tail(responses), seen, owner_desc,
             validate_dialog_tree(w, Head(responses).v, seen,
                                  owner_desc \o " > '" \o Head(responses).k \o "'"))

validate_dialog_tree(w, tree, seen, owner_desc) ==
    validate_responses_after(w, tree.responses, seen, owner_desc,
                             validate_dialog_node(w, tree, seen, owner_desc))

\* seen is state.dialog_jump_targets when the interaction is reached
validate_interaction(w, x_id, x, seen) ==
    Validations(<<
        IssueIf(x.verb \notin VALID_VERBS,
                "Interaction '" \o x_id \o "' verb '" \o x.verb
                    \o "' is not in the valid verbs list ("
                    \o Join(SetToSeq(VALID_VERBS), ", ") \o ")."),
        IssueIf(x.verb \in {"look", "inventory", "go", "take", "drop", "examine"},
                "Interaction '" \o x_id \o "' verb '" \o x.verb
                    \o "' cannot be used in interactions."),
        IssueIf(~Has(w.items, x.item),
                "Interaction '" \o x_id \o "' item '" \o x.item
                    \o "' is was not found in the 'items' list."),
        IssueIf(StrTruthy(x.target) /\ x.verb \notin {"use", "give"},
                "Interaction '" \o x_id \o "' verb '" \o x.verb \o "' has a target ('"
                    \o FmtOpt(x.target)
                    \o "'). Only verbs 'use' and 'give' support targets."),
        validate_opt_criteria(w, x.criteria, "'" \o x_id \o "' interaction criteria"),
        IF IsNone(x.effect) THEN NoIssue
        ELSE validate_effect(w, Val(x.effect), "'" \o x_id \o "' interaction effect"),
        IF IsNone(x.dialog) THEN NoIssue
        ELSE validate_dialog_tree(w, Val(x.dialog), seen, "'" \o x_id \o "' dialog"),
        validate_resolvable_text(w, x.message, "'" \o x_id \o "' interaction message"),
        IssueIf(IsNone(x.dialog) /\ ~TextTruthy(x.message),
                "'" \o x_id \o "' interaction has no 'message' or 'dialog' property."),
        IssueIf(~IsNone(x.dialog) /\ TextTruthy(x.message),
                "'" \o x_id \o "' interaction has a 'message' and a 'dialog' property.") >>)

RECURSIVE validate_interactions(_, _, _)

\* the check of an interaction followed by the checks of those that remain
validate_interactions_after(w, interactions, seen, first) ==
    CHOOSE both \in
        { Validations(<< f, validate_interactions(w, interactions,
                                                  seen \cup f.dialog_jump_targets) >>) :
          f \in {first} } : TRUE

\* for x_id, x in self.interactions.items()
validate_interactions(w, interactions, seen) ==
    IF Len(interactions) = 0 THEN NoIssue
    ELSE validate_interactions_after(
             w, Tail(interactions), seen,
             validate_interaction(w, Head(interactions).k, Head(interactions).v, seen))

\* everything validate checks before the unreferenced and unreachable reports
validate_declarations(w) ==
    Validations(
        << validate_header(w) >>
        \o [i \in DOMAIN w.locations |-> validate_location(w, i)]
        \o [i \in DOMAIN w.items |-> validate_item(w, w.items[i].k, w.items[i].v)]
        \o [i \in DOMAIN w.npcs |-> validate_npc(w, w.npcs[i].k)]
        \o << validate_interactions(w, w.interactions, {}) >>)

\* the reports on jumps without a target and targets without a jump
validate_jumps(found) ==
    (IF found.dialog_jumps \ found.dialog_jump_targets # {}
     THEN <<"Invalid dialog jumps: "
               \o Join(SetToSeq(found.dialog_jumps \ found.dialog_jump_targets), ", ")>>
     ELSE <<>>)
    \o (IF found.dialog_jump_targets \ found.dialog_jumps # {}
        THEN <<"Unreferenced dialog jump targets: "
                  \o Join(SetToSeq(found.dialog_jump_targets \ found.dialog_jumps), ", ")>>
        ELSE <<>>)

validate_unreferenced(w, found) ==
    LET IsUnrefFlag(flag) == flag \notin found.ref_flags
        IsUnrefItem(item_id) == item_id \notin found.ref_items
    IN  (IF Len(Filter(SetToSeq(w.flags), IsUnrefFlag)) > 0
         THEN <<"Unreferenced flags: "
                   \o Join(Filter(SetToSeq(w.flags), IsUnrefFlag), ", ") \o ".">>
         ELSE <<>>)
        \o (IF Len(Filter(Keys(w.items), IsUnrefItem)) > 0
            THEN <<"Unreferenced items: "
                      \o Join(Filter(Keys(w.items), IsUnrefItem), ", ") \o ".">>
            ELSE <<>>)

\* for _, ex in loc.exits.items(): if ex.to in unreachable: remove it, queue it
RECURSIVE scan_exits(_, _, _)
scan_exits(exits, queue, unreachable) ==
    IF Len(exits) = 0 THEN [queue |-> queue, unreachable |-> unreachable]
    ELSE IF InList(Head(exits).v.to, unreachable)
    THEN scan_exits(Tail(exits), Append(queue, Head(exits).v.to),
                    ListRemove(unreachable, Head(exits).v.to))
    ELSE scan_exits(Tail(exits), queue, unreachable)

\* while queue: the locations still unreachable when the queue is empty
RECURSIVE find_unreachable(_, _, _)
find_unreachable(w, queue, unreachable) ==
    IF Len(queue) = 0 THEN unreachable
    ELSE find_unreachable(
             w,
             scan_exits(Get(w.locations, Head(queue)).exits, Tail(queue), unreachable).queue,
             scan_exits(Get(w.locations, Head(queue)).exits, Tail(queue),
                        unreachable).unreachable)

validate_unreachable(w) ==
    IF Len(find_unreachable(w, <<w.world.start>>,
                            ListRemove(Keys(w.locations), w.world.start))) > 0
    THEN <<"Unreachable locations: "
              \o Join(find_unreachable(w, <<w.world.start>>,
                                       ListRemove(Keys(w.locations), w.world.start)), ", ")
              \o ".">>
    ELSE <<>>

\* [exc, issues]: the list validate returns, or the exception it raised;
\* unreachable.remove(start) is a ValueError when start is not a location
validate(w) ==
    IF ~Has(w.locations, w.world.start) THEN [exc |-> Some("ValueError"), issues |-> <<>>]
    ELSE [exc |-> None,
          issues |-> validate_declarations(w).issues
                       \o validate_unreferenced(w, validate_declarations(w))
                       \o validate_jumps(validate_declarations(w))
                       \o validate_unreachable(w)]

\* validate, computed once for each world
ValidateTable == [w \in Worlds |-> validate(w)]

\* validate() returns and reports no issues
Valid(w) == IsNone(ValidateTable[w].exc) /\ Len(ValidateTable[w].issues) = 0

---------------------------------------------------------------------------
(* The commands a player types in a world *)

\* the names and aliases the world's items answer to, and one that none does
Nouns(w) ==
    UNION { {Lower(w.items[i].v.name)} \cup
            { Lower(w.items[i].v.aliases[j]) : j \in DOMAIN w.items[i].v.aliases } :
            i \in DOMAIN w.items }
    \cup {"ghost"}

\* the directions of the world's exits, and one no location has
Directions(w) ==
    UNION { KeySet(w.locations[i].v.exits) : i \in DOMAIN w.locations } \cup {"west"}

\* the joining word parse_command accepts after the verb, between spaces
joining_word(verb) == IF verb = "give" THEN " to " ELSE " on "

\* the command an interaction is written for, with and without its target
InteractionInputs(w) ==
    UNION { LET x == w.interactions[i].v
                main == Lower(Get(w.items, x.item).name)
            IN  {x.verb \o " " \o main} \cup
                (IF IsNone(x.target) THEN {}
                 ELSE { x.verb \o " " \o main \o joining_word(x.verb) \o "the "
                           \o Lower(Get(w.items, Val(x.target)).name),
                        x.verb \o " key" \o joining_word(x.verb)
                           \o Lower(Get(w.items, Val(x.target)).name) }) :
            i \in DOMAIN w.interactions }

RawInputsOf(w) ==
    {"look", "L", " inventory ", "", "dance", "take", "'n'", "close ghost on"}
    \cup { "go " \o d : d \in Directions(w) }
    \cup { v \o " " \o n : v \in {"take", "drop", "examine", "talk to"}, n \in Nouns(w) }
    \cup InteractionInputs(w)

\* The tables below hold values of the operators above, computed once.

RawInputTable == [w \in Worlds |-> RawInputsOf(w)]

RawInputs(w) == RawInputTable[w]

ParseTable == [raw \in UNION { RawInputsOf(w) : w \in Worlds } |-> parse_command(raw)]

\* parse_command(raw), read from the table for the inputs it holds
Parsed(raw) == IF raw \in DOMAIN ParseTable THEN ParseTable[raw] ELSE parse_command(raw)

ItemNames ==
    UNION { UNION { {w.items[i].v.name} \cup Range(w.items[i].v.aliases) :
                    i \in DOMAIN w.items } : w \in Worlds }

LowerTable == [name \in ItemNames |-> Lower(name)]

\* str.lower(), read from the table for the names it holds
str_lower(s) == IF s \in ItemNames THEN LowerTable[s] ELSE Lower(s)

---------------------------------------------------------------------------
(* engine.py: session state, results *)

GameEngineState(location_id, inventory, flags, location_items, completed_interactions) ==
    [location_id |-> location_id, inventory |-> inventory, flags |-> flags,
     location_items |-> location_items,
     completed_interactions |-> completed_interactions]

ActionResult(status, message) == [status |-> status, message |-> message]

\* what a handler leaves behind: the session state and the returned ActionResult
Outcome(st, res) == [st |-> st, res |-> res]

ok_result(st, message) == Outcome(st, ActionResult("ok", message))

invalid_result(st, message) == Outcome(st, ActionResult("invalid", message))

no_effect_result(st, message) == Outcome(st, ActionResult("no_effect", message))

\* the handler raised: no ActionResult is returned, st is the state at the raise
Raised(st, exception) == Outcome(st, ActionResult("raised", exception))

\* the value of an expression that may raise
Value(v) == [exc |-> None, val |-> v]

Throws(exception) == [exc |-> Some(exception), val |-> None]

companion_flag(npc_id) == "companion:" \o npc_id

get_initial_game_state(w) ==
    GameEngineState(
        w.world.start,
        w.world.initial_inventory,
        { companion_flag(w.world.initial_companions[i]) :
            i \in DOMAIN w.world.initial_companions },
        [i \in DOMAIN w.locations |-> Entry(w.locations[i].k, w.locations[i].v.items)],
        {})

is_npc(w, item_id) == Has(w.npcs, item_id)

npcs(w) == Keys(w.npcs)

is_companion(s, npc_id) == companion_flag(npc_id) \in s.flags

companions(w, s) == LET IsComp(n) == is_companion(s, n) IN Filter(npcs(w), IsComp)

---------------------------------------------------------------------------
(* engine.py: criteria, effects, resolvable text *)

\* a criteria that holds only while no flag but the required ones is set
is_criteria_satisfied_exact(w, s, criteria) ==
    IF IsNone(criteria) THEN TRUE
    ELSE LET c == Val(criteria)
             has_required_flags == c.requires_flags = s.flags
             is_blocked_by_flags == (c.blocking_flags \cap s.flags) # {}
             has_required_inventory == c.requires_inventory \subseteq Range(s.inventory)
         IN  has_required_flags /\ ~is_blocked_by_flags /\ has_required_inventory

is_criteria_satisfied(w, s, criteria) ==
    IF IsNone(criteria) THEN TRUE
    ELSE LET c == Val(criteria)
             has_required_flags == c.requires_flags \subseteq s.flags
             is_blocked_by_flags == (c.blocking_flags \cap s.flags) # {}
             has_required_inventory == c.requires_inventory \subseteq Range(s.inventory)
         IN  has_required_flags /\ ~is_blocked_by_flags /\ has_required_inventory

\* next(...) over the clauses whose criteria is satisfied; StopIteration when none is
resolve_text(w, s, text) ==
    IF text.kind = "str" THEN Value(text.text)
    ELSE LET Sat(i) == is_criteria_satisfied(w, s, text.clauses[i].criteria)
         IN  IF \E i \in DOMAIN text.clauses : Sat(i)
             THEN Value(text.clauses[CHOOSE i \in DOMAIN text.clauses :
                                        Sat(i) /\ \A j \in 1..(i - 1) : ~Sat(j)].text)
             ELSE Throws("StopIteration")

\* resolve_text applied to an Optional[ResolvableText]: iterating None is a TypeError
resolve_opt_text(w, s, text) ==
    IF IsNone(text) THEN Throws("TypeError") ELSE resolve_text(w, s, Val(text))

\* an apply_effect that clears before it sets
apply_effect_clear_first(s, effect) ==
    IF IsNone(effect) THEN s
    ELSE [s EXCEPT !.flags = (s.flags \ Val(effect).clear_flags) \cup Val(effect).set_flags]

apply_effect(s, effect) ==
    IF IsNone(effect) THEN s
    ELSE [s EXCEPT !.flags = (s.flags \cup Val(effect).set_flags) \ Val(effect).clear_flags]

---------------------------------------------------------------------------
(* engine.py: companions *)

\* for companion in companions: if companion in location_items: remove it
RECURSIVE RemoveEach(_, _)
RemoveEach(items, ids) ==
    IF Len(ids) = 0 THEN items
    ELSE RemoveEach(IF InList(Head(ids), items) THEN ListRemove(items, Head(ids)) ELSE items,
                    Tail(ids))

\* the first loop of move_companions: every location's list loses one
\* occurrence of every companion
\* a removal that empties every list a companion is in
remove_companions_clearing(w, s) ==
    [s EXCEPT !.location_items =
        [i \in DOMAIN s.location_items |->
            Entry(s.location_items[i].k,
                  IF Range(s.location_items[i].v) \cap Range(companions(w, s)) # {}
                  THEN <<>> ELSE s.location_items[i].v)]]

remove_companions(w, s) ==
    [s EXCEPT !.location_items =
        [i \in DOMAIN s.location_items |->
            Entry(s.location_items[i].k,
                  RemoveEach(s.location_items[i].v, companions(w, s)))]]

\* current_location_items().extend(companions): KeyError when the current
\* location has no item list
extend_companions(w, s) ==
    IF ~Has(s.location_items, s.location_id)
    THEN [st |-> s, exc |-> Some("KeyError")]
    ELSE [st |-> [s EXCEPT !.location_items =
                     Put(s.location_items, s.location_id,
                         Get(s.location_items, s.location_id) \o companions(w, s))],
          exc |-> None]

\* [st, exc]: the state after move_companions, and the exception it raised
move_companions(w, s) == extend_companions(w, remove_companions(w, s))

---------------------------------------------------------------------------
(* engine.py: describing the current location *)

\* the first exception among a list of evaluated expressions, else their values
Collect(outs) ==
    IF \E i \in DOMAIN outs : ~IsNone(outs[i].exc)
    THEN [exc |-> outs[CHOOSE i \in DOMAIN outs :
                          ~IsNone(outs[i].exc) /\ \A j \in 1..(i - 1) : IsNone(outs[j].exc)].exc,
          val |-> <<>>]
    ELSE Value([i \in DOMAIN outs |-> outs[i].val])

\* world.items[item_id] for each id: KeyError when an id is not declared
ItemLookup(w, ids) ==
    IF \E i \in DOMAIN ids : ~Has(w.items, ids[i]) THEN Throws("KeyError") ELSE Value(ids)

\* the NPCs of the current location that are not companions
other_npcs(w, s) ==
    LET IsOther(id) == is_npc(w, id) /\ ~is_companion(s, id)
    IN  ItemLookup(w, Filter(Get(s.location_items, s.location_id), IsOther))

\* the line describe_npcs appends for one NPC that is not a companion
npc_line(w, s, item_id) ==
    IF TextTruthy(Get(w.items, item_id).location_description)
         /\ InList(item_id, Get(w.locations, s.location_id).items)
    THEN resolve_text(w, s, Val(Get(w.items, item_id).location_description))
    ELSE Value(Get(w.items, item_id).name \o " is here.")

\* the "Your companions" line
companion_lines(w, s) ==
    IF Len(companions(w, s)) > 0
    THEN <<"Your companions: "
             \o Join([i \in DOMAIN companions(w, s) |->
                         Get(w.items, companions(w, s)[i]).name], ", ")>>
    ELSE <<>>

npc_lines(w, s, lines) ==
    IF ~IsNone(lines.exc) THEN lines ELSE Value(lines.val \o companion_lines(w, s))

\* describe_npcs(verbose = False); the caller has read the current location
describe_npcs(w, s) ==
    IF ~IsNone(ItemLookup(w, companions(w, s)).exc) THEN Throws("KeyError")
    ELSE IF ~IsNone(other_npcs(w, s).exc) THEN Throws("KeyError")
    ELSE npc_lines(w, s, Collect([i \in DOMAIN other_npcs(w, s).val |->
                                     npc_line(w, s, other_npcs(w, s).val[i])]))

\* resolve_text as one line of a description
text_line(r) == IF IsNone(r.exc) THEN Value(<<r.val>>) ELSE r

\* the lines describe_items appends for one item of the current location
item_lines(w, s, item_id) ==
    IF ~Has(w.items, item_id) THEN Throws("KeyError")
    ELSE IF is_npc(w, item_id) THEN Value(<<>>)
    ELSE IF TextTruthy(Get(w.items, item_id).location_description)
              /\ InList(item_id, Get(w.locations, s.location_id).items)
    THEN text_line(resolve_text(w, s, Val(Get(w.items, item_id).location_description)))
    ELSE IF Get(w.items, item_id).portable
    THEN Value(<<"There is a " \o Get(w.items, item_id).name \o " here.">>)
    ELSE Value(<<>>)

flatten_lines(all) == IF IsNone(all.exc) THEN Value(Flatten(all.val)) ELSE all

\* describe_items(verbose = False)
describe_items(w, s) ==
    flatten_lines(Collect([i \in DOMAIN Get(s.location_items, s.location_id) |->
                              item_lines(w, s, Get(s.location_items, s.location_id)[i])]))

\* the exits describe_exits lists: those whose criteria is satisfied
listed_exits(w, s) ==
    LET Open(e) == is_criteria_satisfied(w, s, e.v.criteria)
    IN  Filter(Get(w.locations, s.location_id).exits, Open)

exit_description(e) == IF e.v.description # "" THEN e.k \o " - " \o e.v.description ELSE e.k

\* describe_exits(verbose = False)
describe_exits(w, s) ==
    IF Len(listed_exits(w, s)) > 0
    THEN <<"Exits: " \o Join([i \in DOMAIN listed_exits(w, s) |->
                                 exit_description(listed_exits(w, s)[i])], ", ")>>
    ELSE <<>>

\* the ActionResult of describe_current_location from the lines of its parts
location_description(w, s, npc_part, item_part) ==
    IF ~IsNone(npc_part.exc) THEN Raised(s, Val(npc_part.exc))
    ELSE IF ~IsNone(item_part.exc) THEN Raised(s, Val(item_part.exc))
    ELSE ok_result(s,
            Join(<<Get(w.locations, s.location_id).name, "",
                   RStrip(Get(w.locations, s.location_id).description)>>
                     \o npc_part.val \o item_part.val \o describe_exits(w, s),
                 "\n"))

\* describe_current_location(verbose = False)
describe_current_location(w, s) ==
    IF ~Has(w.locations, s.location_id) THEN Raised(s, "KeyError")
    ELSE IF ~Has(s.location_items, s.location_id) THEN Raised(s, "KeyError")
    ELSE location_description(w, s, describe_npcs(w, s), describe_items(w, s))

---------------------------------------------------------------------------
(* engine.py: resolving nouns *)

item_matches_noun(item, noun) ==
    \/ str_lower(item.name) = noun
    \/ \E i \in DOMAIN item.aliases : str_lower(item.aliases[i]) = noun

\* the ids resolve_item searches
candidate_items(s, include_location, include_inventory) ==
    (IF include_location THEN Get(s.location_items, s.location_id) ELSE <<>>)
        \o (IF include_inventory THEN s.inventory ELSE <<>>)

\* the ResolveItemResult for the candidates that match the noun
resolve_matches(matches, noun, include_location) ==
    IF Len(matches) = 0
    THEN [exc |-> None, item_id |-> None,
          error |-> Some(IF include_location
                         THEN "There is no " \o noun \o " here."
                         ELSE "You are not carrying a " \o noun \o ".")]
    ELSE IF Len(matches) > 1
    THEN [exc |-> None, item_id |-> None, error |-> Some("Which " \o noun \o "?")]
    ELSE [exc |-> None, item_id |-> Some(matches[1]), error |-> None]

\* [exc, item_id, error]: a ResolveItemResult, or the exception raised
resolve_item(w, s, noun, include_location, include_inventory) ==
    IF include_location /\ ~Has(s.location_items, s.location_id)
    THEN [exc |-> Some("KeyError"), item_id |-> None, error |-> None]
    ELSE IF ~IsNone(ItemLookup(w, candidate_items(s, include_location,
                                                  include_inventory)).exc)
    THEN [exc |-> Some("KeyError"), item_id |-> None, error |-> None]
    ELSE LET Matches(id) == item_matches_noun(Get(w.items, id), noun)
         IN  resolve_matches(
                 Filter(candidate_items(s, include_location, include_inventory), Matches),
                 noun, include_location)

---------------------------------------------------------------------------
(* engine.py: the command handlers *)

\* handle_go after move_companions: the description of the new location
go_arrive(w, moved) ==
    IF ~IsNone(moved.exc) THEN Raised(moved.st, Val(moved.exc))
    ELSE describe_current_location(w, moved.st)

\* a go that takes the direction for the id of the destination
go_exit_by_direction(w, s, direction, exit) ==
    IF ~is_criteria_satisfied(w, s, exit.criteria)
    THEN invalid_result(s, "You cannot go " \o direction \o ".")
    ELSE go_arrive(w, move_companions(w, [s EXCEPT !.location_id = direction]))

\* handle_go through an exit the current location has
go_exit(w, s, direction, exit) ==
    IF ~is_criteria_satisfied(w, s, exit.criteria)
    THEN invalid_result(s, IF StrTruthy(exit.blocked_description)
                           THEN Val(exit.blocked_description)
                           ELSE "You cannot go " \o direction \o ".")
    ELSE go_arrive(w, move_companions(w, [s EXCEPT !.location_id = exit.to]))

handle_go(w, s, direction) ==
    IF ~Has(w.locations, s.location_id) THEN Raised(s, "KeyError")
    ELSE IF ~Has(Get(w.locations, s.location_id).exits, direction)
    THEN invalid_result(s, "You cannot go " \o direction \o ".")
    ELSE go_exit(w, s, direction, Get(Get(w.locations, s.location_id).exits, direction))

\* a take that moves the item before it looks at portable
take_item_unchecked(w, s, item_id) ==
    IF ~Get(w.items, item_id).portable
    THEN no_effect_result(
           [s EXCEPT
              !.location_items =
                  Put(s.location_items, s.location_id,
                      ListRemove(Get(s.location_items, s.location_id), item_id)),
              !.inventory = Append(s.inventory, item_id)],
           "You cannot take the " \o Get(w.items, item_id).name \o ".")
    ELSE ok_result(
           [s EXCEPT
              !.location_items =
                  Put(s.location_items, s.location_id,
                      ListRemove(Get(s.location_items, s.location_id), item_id)),
              !.inventory = Append(s.inventory, item_id)],
           "You took the " \o Get(w.items, item_id).name \o ".")

\* handle_take of the item the noun resolved to
take_item(w, s, item_id) ==
    IF ~Get(w.items, item_id).portable
    THEN no_effect_result(s, "You cannot take the " \o Get(w.items, item_id).name \o ".")
    ELSE ok_result(
           [s EXCEPT
              !.location_items =
                  Put(s.location_items, s.location_id,
                      ListRemove(Get(s.location_items, s.location_id), item_id)),
              !.inventory = Append(s.inventory, item_id)],
           "You took the " \o Get(w.items, item_id).name \o ".")

take_resolved(w, s, found) ==
    IF ~IsNone(found.exc) THEN Raised(s, Val(found.exc))
    ELSE IF ~IsNone(found.error) THEN invalid_result(s, Val(found.error))
    ELSE take_item(w, s, Val(found.item_id))

handle_take(w, s, noun) == take_resolved(w, s, resolve_item(w, s, noun, TRUE, FALSE))

handle_inventory(w, s) ==
    IF ~IsNone(ItemLookup(w, s.inventory).exc) THEN Raised(s, "KeyError")
    ELSE ok_result(s, IF Len(s.inventory) > 0
                      THEN Join([i \in DOMAIN s.inventory |->
                                    Get(w.items, s.inventory[i]).name], ",\n")
                      ELSE "You carry nothing.")

\* a drop that takes the item out of the inventory and puts it nowhere
drop_item_lost(w, s, item_id) ==
    IF ~Has(s.location_items, s.location_id)
    THEN Raised([s EXCEPT !.inventory = ListRemove(s.inventory, item_id)], "KeyError")
    ELSE ok_result([s EXCEPT !.inventory = ListRemove(s.inventory, item_id)],
                   "You dropped the " \o Get(w.items, item_id).name)

\* handle_drop of the item the noun resolved to: the item leaves the inventory
\* before the current location's list is read
drop_item(w, s, item_id) ==
    IF ~Has(s.location_items, s.location_id)
    THEN Raised([s EXCEPT !.inventory = ListRemove(s.inventory, item_id)], "KeyError")
    ELSE ok_result(
           [s EXCEPT
              !.inventory = ListRemove(s.inventory, item_id),
              !.location_items =
                  Put(s.location_items, s.location_id,
                      Append(Get(s.location_items, s.location_id), item_id))],
           "You dropped the " \o Get(w.items, item_id).name)

drop_resolved(w, s, found) ==
    IF ~IsNone(found.exc) THEN Raised(s, Val(found.exc))
    ELSE IF ~IsNone(found.error) THEN invalid_result(s, Val(found.error))
    ELSE drop_item(w, s, Val(found.item_id))

handle_drop(w, s, noun) == drop_resolved(w, s, resolve_item(w, s, noun, FALSE, TRUE))

examine_resolved(w, s, found) ==
    IF ~IsNone(found.exc) THEN Raised(s, Val(found.exc))
    ELSE IF ~IsNone(found.error) THEN invalid_result(s, Val(found.error))
    ELSE ok_result(s, Get(w.items, Val(found.item_id)).description)

\* an examine that picks the item up
handle_examine_taking(w, s, noun) == handle_take(w, s, noun)

handle_examine(w, s, noun) == examine_resolved(w, s, resolve_item(w, s, noun, TRUE, TRUE))

\* An NPC (world.py) declares no dialog attribute, so reading npc.dialog raises
\* AttributeError before any of the dialog branches is reached.
talk_resolved(w, s, found) ==
    IF ~IsNone(found.exc) THEN Raised(s, Val(found.exc))
    ELSE IF ~IsNone(found.error) THEN invalid_result(s, Val(found.error))
    ELSE IF ~Has(w.npcs, Val(found.item_id))
    THEN no_effect_result(s, "The " \o Get(w.items, Val(found.item_id)).name
                                \o " has nothing to say.")
    ELSE Raised(s, "AttributeError")

handle_talk(w, s, noun) == talk_resolved(w, s, resolve_item(w, s, noun, TRUE, FALSE))

\* the keywords of the responses whose criteria is satisfied
dialog_responses(w, s, dialog) ==
    LET IsOpen(response) == is_criteria_satisfied(w, s, response.v.criteria)
    IN  Keys(Filter(dialog.responses, IsOpen))

\* the lines of trigger_dialog's message
dialog_lines(w, s, dialog, player, npc) ==
    (IF TextTruthy(dialog.player_narrative) THEN <<player.val>> ELSE <<>>)
    \o <<npc.val>>
    \o (IF Len(dialog_responses(w, s, dialog)) > 0
        THEN <<"You might respond "
                  \o Join([i \in DOMAIN dialog_responses(w, s, dialog) |->
                              "'" \o dialog_responses(w, s, dialog)[i] \o "'"], ", ")
                  \o ".">>
        ELSE <<>>)

\* trigger_dialog from the resolution of the narratives on
dialog_narrated(w, s, dialog, player, npc) ==
    IF TextTruthy(dialog.player_narrative) /\ ~IsNone(player.exc)
    THEN Raised(s, Val(player.exc))
    ELSE IF ~IsNone(npc.exc) THEN Raised(s, Val(npc.exc))
    ELSE ok_result(s, Join(dialog_lines(w, s, dialog, player, npc), "\n"))

\* trigger_dialog once the effect of the node is applied
dialog_entered(w, s, dialog) ==
    dialog_narrated(w, s, dialog,
                    IF TextTruthy(dialog.player_narrative)
                    THEN resolve_text(w, s, Val(dialog.player_narrative))
                    ELSE Value(""),
                    resolve_opt_text(w, s, dialog.npc_narrative))

\* the session state and the ActionResult; next_dialog_context is
\* DialogContext(npc_id, dialog) from the first statement on
trigger_dialog(w, s, npc_id, dialog) == dialog_entered(w, apply_effect(s, dialog.effect), dialog)

matches_interaction(w, s, interaction, verb, item_id, target_id) ==
    IF interaction.verb # verb \/ interaction.item # item_id \/ interaction.target # target_id
    THEN FALSE
    ELSE is_criteria_satisfied(w, s, interaction.criteria)

\* if item in inventory: inventory.remove(item)
consume_from_inventory(s, item_id) ==
    IF InList(item_id, s.inventory)
    THEN [s EXCEPT !.inventory = ListRemove(s.inventory, item_id)]
    ELSE s

\* if item in current_location_items(): remove it (its callers have read the
\* current location's item list, so the list exists)
consume_from_location(s, item_id) ==
    IF InList(item_id, Get(s.location_items, s.location_id))
    THEN [s EXCEPT !.location_items =
             Put(s.location_items, s.location_id,
                 ListRemove(Get(s.location_items, s.location_id), item_id))]
    ELSE s

\* an apply_interaction that records nothing
mark_complete_skipped(s, interaction_id) == s

\* completed_interactions.add(interaction_id)
mark_complete(s, interaction_id) ==
    [s EXCEPT !.completed_interactions = s.completed_interactions \cup {interaction_id}]

\* the state after apply_interaction
apply_interaction(w, s, interaction_id, interaction) ==
    mark_complete(
        IF interaction.consumes
        THEN consume_from_location(
                 consume_from_inventory(apply_effect(s, interaction.effect), interaction.item),
                 interaction.item)
        ELSE apply_effect(s, interaction.effect),
        interaction_id)

\* a search that returns the last entry that matches
find_interaction_last(w, s, verb, item_id, target_id) ==
    LET M(i) == matches_interaction(w, s, w.interactions[i].v, verb, item_id, target_id)
    IN  IF \E i \in DOMAIN w.interactions : M(i)
        THEN Some(w.interactions[CHOOSE i \in DOMAIN w.interactions :
                                    M(i) /\ \A j \in (i + 1)..Len(w.interactions) : ~M(j)])
        ELSE None

\* the entry of world.interactions the command selects: the first, in declaration
\* order, that matches; None when there is none
find_interaction(w, s, verb, item_id, target_id) ==
    LET M(i) == matches_interaction(w, s, w.interactions[i].v, verb, item_id, target_id)
    IN  IF \E i \in DOMAIN w.interactions : M(i)
        THEN Some(w.interactions[CHOOSE i \in DOMAIN w.interactions :
                                    M(i) /\ \A j \in 1..(i - 1) : ~M(j)])
        ELSE None

\* handle_interaction after apply_interaction: the message is resolved in the
\* state the interaction left
interaction_result(applied, message) ==
    IF ~IsNone(message.exc) THEN Raised(applied, Val(message.exc))
    ELSE ok_result(applied, message.val)

interaction_applied(w, applied, interaction) ==
    interaction_result(applied, resolve_opt_text(w, applied, interaction.message))

\* handle_interaction from the search for a matching interaction on
interaction_found(w, s, interaction_entry) ==
    IF IsNone(interaction_entry) THEN no_effect_result(s, "That didn't work.")
    ELSE IF ~Val(interaction_entry).v.repeatable
              /\ Val(interaction_entry).k \in s.completed_interactions
    THEN no_effect_result(s, "You already did that.")
    ELSE interaction_applied(
             w,
             apply_interaction(w, s, Val(interaction_entry).k, Val(interaction_entry).v),
             Val(interaction_entry).v)

\* handle_interaction from the resolution of the target noun on
interaction_target(w, s, command, item_id, target_result) ==
    IF ~IsNone(target_result.exc) THEN Raised(s, Val(target_result.exc))
    ELSE IF ~IsNone(target_result.error) THEN invalid_result(s, Val(target_result.error))
    ELSE interaction_found(
             w, s, find_interaction(w, s, Val(command.verb), item_id, target_result.item_id))

\* handle_interaction from the resolution of the main noun on
interaction_item(w, s, command, item_result) ==
    IF ~IsNone(item_result.exc) THEN Raised(s, Val(item_result.exc))
    ELSE IF ~IsNone(item_result.error) THEN invalid_result(s, Val(item_result.error))
    ELSE interaction_target(
             w, s, command, Val(item_result.item_id),
             IF StrTruthy(command.target_noun)
             THEN resolve_item(w, s, Val(command.target_noun), TRUE, FALSE)
             ELSE [exc |-> None, item_id |-> None, error |-> None])

\* a handle_interaction that looks for the main noun in the location whether or
\* not there is a target noun
handle_interaction_anywhere(w, s, command) ==
    IF IsNone(command.verb) \/ IsNone(command.main_noun) THEN Raised(s, "AssertionError")
    ELSE interaction_item(w, s, command,
                          resolve_item(w, s, Val(command.main_noun), TRUE, TRUE))

handle_interaction(w, s, command) ==
    IF IsNone(command.verb) \/ IsNone(command.main_noun) THEN Raised(s, "AssertionError")
    ELSE interaction_item(
             w, s, command,
             resolve_item(w, s, Val(command.main_noun), ~StrTruthy(command.target_noun), TRUE))

\* the verbs handle_command dispatches itself; go, take, drop, examine and talk
\* assert that the command has a main noun
handle_command(w, s, command) ==
    IF command.verb = Some("look") THEN describe_current_location(w, s)
    ELSE IF command.verb = Some("inventory") THEN handle_inventory(w, s)
    ELSE IF command.verb \in {Some("go"), Some("take"), Some("drop"), Some("examine"),
                              Some("talk")}
    THEN IF IsNone(command.main_noun) THEN Raised(s, "AssertionError")
         ELSE IF command.verb = Some("go") THEN handle_go(w, s, Val(command.main_noun))
         ELSE IF command.verb = Some("take") THEN handle_take(w, s, Val(command.main_noun))
         ELSE IF command.verb = Some("drop") THEN handle_drop(w, s, Val(command.main_noun))
         ELSE IF command.verb = Some("examine")
         THEN handle_examine(w, s, Val(command.main_noun))
         ELSE handle_talk(w, s, Val(command.main_noun))
    ELSE handle_interaction(w, s, command)

\* handle_raw_command once the text is parsed
run_parsed(w, s, command) ==
    IF StrTruthy(command.error)
    THEN invalid_result(s, Val(command.error))
    ELSE handle_command(w, s, command)

handle_raw_command(w, s, raw_command) == run_parsed(w, s, Parsed(raw_command))

---------------------------------------------------------------------------
(* The engine as a state machine *)

MaxInventory == 2

\* commands a caller can hand to handle_command that parse_command never
\* returns: no verb, a verb that needs a noun without one, a noun in capitals
CommandInputs(w) ==
    { ParsedCommand("", None, None, None, None),
      ParsedCommand("take", Some("take"), None, None, None),
      ParsedCommand("use", Some("use"), None, None, None) }
    \cup { ParsedCommand("examine " \o w.items[i].v.name, Some("examine"),
                         Some(w.items[i].v.name), None, None) : i \in DOMAIN w.items }

\* GameEngine.__init__
Init ==
    /\ world \in Worlds
    /\ state = move_companions(world, get_initial_game_state(world)).st
    /\ last_command = None
    /\ result = None
    /\ call = None
    /\ call_value = None

\* the engine after a call: the state the handler left and what it returned
Returned(out) ==
    /\ Len(out.st.inventory) <= MaxInventory
    /\ state' = out.st
    /\ result' = Some(out.res)
    /\ UNCHANGED <<world, call, call_value>>

\* GameEngine.handle_raw_command(raw)
HandleRawCommand(raw) ==
    /\ last_command' = Some(Parsed(raw))
    /\ Returned(handle_raw_command(world, state, raw))

Next == \E raw \in RawInputs(world) : HandleRawCommand(raw)

Spec == Init /\ [][Next]_vars

---------------------------------------------------------------------------
(* The evaluators, called on their own: is_criteria_satisfied, resolve_text *)

MaxCriteriaSize == 1

MaxClauses == 3

SubsetsUpTo(S, n) == { T \in SUBSET S : Cardinality(T) <= n }

\* the flags a session of the world can hold
FlagNames(w) == w.flags \cup { companion_flag(w.npcs[i].k) : i \in DOMAIN w.npcs }

CriteriaInputs(w) ==
    {None} \cup
    { Some(Criteria(rf, bf, ri, rc)) :
        rf \in SubsetsUpTo(FlagNames(w), MaxCriteriaSize),
        bf \in SubsetsUpTo(FlagNames(w), MaxCriteriaSize),
        ri \in SubsetsUpTo(KeySet(w.items), MaxCriteriaSize),
        rc \in SubsetsUpTo(KeySet(w.npcs), MaxCriteriaSize) }

\* the criteria of a clause: none, or one flag required or blocking
ClauseCriteria(w) ==
    {None} \cup { RequiresFlags({f}) : f \in w.flags } \cup { BlockedByFlags({f}) : f \in w.flags }

\* the clause lists of up to MaxClauses clauses; clause i has the text "text i"
ClauseLists(w) ==
    UNION { { [i \in 1..n |-> ConditionalText("text " \o ToString(i), c[i])] :
              c \in [1..n -> ClauseCriteria(w)] } : n \in 0..MaxClauses }

TextInputs(w) ==
    {PlainText(""), PlainText("plain text")} \cup { ClauseList(cl) : cl \in ClauseLists(w) }

CriteriaCall(criteria) ==
    [fn |-> "is_criteria_satisfied", criteria |-> criteria, text |-> PlainText("")]

TextCall(text) == [fn |-> "resolve_text", criteria |-> None, text |-> text]

Calls(w) ==
    { CriteriaCall(c) : c \in CriteriaInputs(w) } \cup { TextCall(t) : t \in TextInputs(w) }

\* the inventories of up to MaxInventory portable items
Inventories(w) ==
    LET Portable == { id \in KeySet(w.items) : Get(w.items, id).portable }
    IN  UNION { { inv \in [1..n -> Portable] : \A i, j \in 1..n : inv[i] = inv[j] => i = j } :
                n \in 0..MaxInventory }

\* one effect on one flag
EffectInputs(w) ==
    { Effect({f}, {}) : f \in FlagNames(w) } \cup { Effect({}, {f}) : f \in FlagNames(w) }

\* a session as the engine constructs it, carrying one of the inventories, and
\* one call to make on it
InitEval ==
    /\ world \in Worlds
    /\ \E inv \in Inventories(world) :
          state = [move_companions(world, get_initial_game_state(world)).st
                       EXCEPT !.inventory = inv]
    /\ last_command = None
    /\ result = None
    /\ call \in Calls(world)
    /\ call_value = None

\* GameEngine.is_criteria_satisfied(criteria)
IsCriteriaSatisfied ==
    /\ call.fn = "is_criteria_satisfied"
    /\ call_value' = Some(is_criteria_satisfied(world, state, call.criteria))
    /\ UNCHANGED <<world, state, last_command, result, call>>

\* GameEngine.resolve_text(text)
ResolveText ==
    /\ call.fn = "resolve_text"
    /\ call_value' = Some(resolve_text(world, state, call.text))
    /\ UNCHANGED <<world, state, last_command, result, call>>

\* GameEngine.apply_effect(effect): what was evaluated before no longer stands
ApplyEffect(effect) ==
    /\ state' = apply_effect(state, Some(effect))
    /\ call_value' = None
    /\ UNCHANGED <<world, last_command, result, call>>

NextEval ==
    \/ IsCriteriaSatisfied
    \/ ResolveText
    \/ \E effect \in EffectInputs(world) : ApplyEffect(effect)

SpecEval == InitEval /\ [][NextEval]_vars

---------------------------------------------------------------------------
(* Properties of a played session *)

\* the commands handle_command is given: what parse_command makes of the raw
\* inputs that parse, and the commands only a caller can build
Commands(w) ==
    { Parsed(raw) : raw \in { r \in RawInputs(w) : ~StrTruthy(Parsed(r).error) } }
    \cup CommandInputs(w)

Failed(res) == res.status \in {"invalid", "no_effect"}

(* C1: in every reachable session state, a command that returns INVALID or   *)
(* NO_EFFECT, given as raw text to handle_raw_command or parsed to           *)
(* handle_command, leaves location_id, flags, inventory, location_items and  *)
(* completed_interactions as they were before the call.                      *)
C1_FailedCommandChangesNothing ==
    /\ \A raw \in RawInputs(world) :
          Failed(handle_raw_command(world, state, raw).res)
              => handle_raw_command(world, state, raw).st = state
    /\ \A command \in Commands(world) :
          Failed(handle_command(world, state, command).res)
              => handle_command(world, state, command).st = state

\* a command has just failed in a session that has taken an item and completed
\* an interaction
C1_Witness ==
    /\ ~IsNone(result)
    /\ Failed(Val(result))
    /\ state.completed_interactions # {}
    /\ Len(state.inventory) > 0

\* where an item id is: in the inventory, in the item list of a location
Places(s, item_id) ==
    (IF InList(item_id, s.inventory) THEN {<<"inventory">>} ELSE {})
    \cup { <<"location", s.location_items[i].k>> :
             i \in { j \in DOMAIN s.location_items : InList(item_id, s.location_items[j].v) } }

(* C2: on a world validate() reports no issue for, in every reachable state  *)
(* every item id is in at most one of the inventory and the item lists of    *)
(* the locations: never carried and lying somewhere, never in two locations. *)
C2_ItemInOnePlace ==
    Valid(world) => \A item_id \in KeySet(world.items) : Cardinality(Places(state, item_id)) <= 1

\* every companion is in the item list of the current location and in no other
Rehomed(w, s) ==
    \A i \in DOMAIN companions(w, s) :
        \A j \in DOMAIN s.location_items :
            InList(companions(w, s)[i], s.location_items[j].v)
                <=> s.location_items[j].k = s.location_id

(* C3: in every reachable state, every NPC whose flag companion:<id> is set  *)
(* is in the item list of the current location and in the item list of no    *)
(* other location.                                                           *)
C3_CompanionsAreHere ==
    /\ companions(world, state) # <<>> => Has(state.location_items, state.location_id)
    /\ Rehomed(world, state)

\* the entry of world.interactions handle_interaction selects for the command;
\* None when handle_command handles the verb itself, when a noun does not
\* resolve, and when no interaction matches
selected_interaction(w, s, command) ==
    IF \/ IsNone(command.verb) \/ IsNone(command.main_noun)
       \/ command.verb \in {Some("look"), Some("inventory"), Some("go"), Some("take"),
                            Some("drop"), Some("examine"), Some("talk")}
    THEN None
    ELSE LET item_result == resolve_item(w, s, Val(command.main_noun),
                                         ~StrTruthy(command.target_noun), TRUE)
             target_result == IF StrTruthy(command.target_noun)
                              THEN resolve_item(w, s, Val(command.target_noun), TRUE, FALSE)
                              ELSE [exc |-> None, item_id |-> None, error |-> None]
         IN  IF IsNone(item_result.item_id) THEN None
             ELSE IF ~IsNone(target_result.exc) \/ ~IsNone(target_result.error) THEN None
             ELSE find_interaction(w, s, Val(command.verb), Val(item_result.item_id),
                                   target_result.item_id)

\* the command selects a non-repeatable interaction that is not completed
SelectsFresh(w, s, command) ==
    /\ ~IsNone(selected_interaction(w, s, command))
    /\ ~Val(selected_interaction(w, s, command)).v.repeatable
    /\ Val(selected_interaction(w, s, command)).k \notin s.completed_interactions

AlreadyDone == ActionResult("no_effect", "You already did that.")

C5_Go ==
    Has(world.locations, state.location_id) =>
        \A direction \in Directions(world) :
            LET exits == Get(world.locations, state.location_id).exits
                out == handle_go(world, state, direction)
            IN  IF ~Has(exits, direction)
                THEN out.res.status = "invalid" /\ out.st.location_id = state.location_id
                ELSE IF ~is_criteria_satisfied(world, state, Get(exits, direction).criteria)
                THEN /\ out.res.status = "invalid"
                     /\ StrTruthy(Get(exits, direction).blocked_description)
                            => out.res.message = Val(Get(exits, direction).blocked_description)
                     /\ out.st.location_id = state.location_id
                ELSE /\ out.st.location_id = Get(exits, direction).to
                     /\ out.res.status = "ok"
                     /\ out.res = describe_current_location(world, out.st).res

(* C6: right after the engine is constructed, and right after every go that  *)
(* succeeds, every companion is in the item list of the location the player  *)
(* is in and in the item list of no other location.                          *)
C6_CompanionsFollow ==
    /\ IsNone(result) => Rehomed(world, state)
    /\ \A direction \in Directions(world) :
          handle_go(world, state, direction).res.status = "ok"
              => Rehomed(world, handle_go(world, state, direction).st)

\* the ids in the item list of the current location
Here(s) == Range(Get(s.location_items, s.location_id))

---------------------------------------------------------------------------
(* Properties of the evaluators *)

(* C8: is_criteria_satisfied(criteria) is true exactly when state.flags      *)
(* includes requires_flags, state.flags shares no flag with blocking_flags,  *)
(* the inventory includes requires_inventory and the current companions      *)
(* include requires_companions; an absent criteria is satisfied.             *)
C8_CriteriaSatisfiedIff ==
    (call.fn = "is_criteria_satisfied" /\ ~IsNone(call_value)) =>
        Val(call_value) =
            IF IsNone(call.criteria) THEN TRUE
            ELSE /\ Val(call.criteria).requires_flags \subseteq state.flags
                 /\ Val(call.criteria).blocking_flags \cap state.flags = {}
                 /\ Val(call.criteria).requires_inventory \subseteq Range(state.inventory)
                 /\ Val(call.criteria).requires_companions
                        \subseteq Range(companions(world, state))

\* a criteria that asks for flags and blocks on none
RequiresOnly(criteria) ==
    /\ ~IsNone(criteria)
    /\ Val(criteria).requires_flags # {}
    /\ Val(criteria).blocking_flags = {}

(* C9: for a criteria with requires_flags and no blocking flags, if the      *)
(* criteria is satisfied in a state it is satisfied in the state with one    *)
(* more flag set.                                                            *)
C9_MonotonicInFlags ==
    (call.fn = "is_criteria_satisfied" /\ RequiresOnly(call.criteria)) =>
        \A f \in FlagNames(world) :
            is_criteria_satisfied(world, state, call.criteria)
                => is_criteria_satisfied(world, apply_effect(state, Some(Effect({f}, {}))),
                                         call.criteria)

\* a criteria that asks for flags was found satisfied in a session that holds
\* a flag the criteria does not ask for
C9_Witness ==
    /\ call.fn = "is_criteria_satisfied"
    /\ RequiresOnly(call.criteria)
    /\ call_value = Some(TRUE)
    /\ state.flags \ Val(call.criteria).requires_flags # {}

\* the clauses of the list whose criteria is satisfied
SatisfiedClauses(w, s, clauses) ==
    { i \in DOMAIN clauses : is_criteria_satisfied(w, s, clauses[i].criteria) }

(* C10: resolve_text returns a plain string unchanged; for a clause list it  *)
(* returns the text of the first clause whose criteria is satisfied; and for *)
(* every clause list validate_resolvable_text reports no issue for, it       *)
(* returns a text in every state and never fails.                            *)
C10_ResolveText ==
    (call.fn = "resolve_text" /\ ~IsNone(call_value)) =>
        /\ call.text.kind = "str" => Val(call_value) = Value(call.text.text)
        /\ (call.text.kind = "list"
              /\ SatisfiedClauses(world, state, call.text.clauses) # {})
              => \E i \in SatisfiedClauses(world, state, call.text.clauses) :
                    /\ \A j \in SatisfiedClauses(world, state, call.text.clauses) : i <= j
                    /\ Val(call_value) = Value(call.text.clauses[i].text)
        /\ (call.text.kind = "list"
              /\ validate_resolvable_text(world, Some(call.text), "text").issues = <<>>)
              => IsNone(Val(call_value).exc)

---------------------------------------------------------------------------
(* Properties of play on a world with authoring defects *)

(* C11: on a world validate() reports issues for, in every reachable state   *)
(* no raw input makes handle_raw_command raise: it returns an ActionResult,  *)
(* so a go through an open exit to an undeclared location does too, and a    *)
(* call that does not return OK leaves the state as it was.                  *)
C11_NeverRaises ==
    ~Valid(world) =>
        \A raw \in RawInputs(world) :
            /\ handle_raw_command(world, state, raw).res.status # "raised"
            /\ handle_raw_command(world, state, raw).res.status # "ok"
                  => handle_raw_command(world, state, raw).st = state

(* C12: in every reachable state every id in completed_interactions is the   *)
(* id of an interaction that is not repeatable: applying a repeatable        *)
(* interaction does not record its id.                                       *)
C12_CompletedAreNotRepeatable ==
    \A interaction_id \in state.completed_interactions :
        /\ Has(world.interactions, interaction_id)
        /\ ~Get(world.interactions, interaction_id).repeatable

---------------------------------------------------------------------------
(* The parser, called on its own: parse_command *)

MaxWords == 3

\* the first token of an input: the verbs, some aliases, a direction, a word
\* that is no verb, a verb in capitals
VerbTokens == VALID_VERBS \cup {"get", "l", "n", "north", "dance", "GO"}

\* the words that follow the verb
Words == {"the", "key", "door", "on", "to", "n"}

\* the sequences of up to MaxWords words
Remainders == UNION { [1..n -> Words] : n \in 0..MaxWords }

\* one call of parse_command: the text, and the tokens it was written from
ParseCall(raw, tokens) == [fn |-> "parse_command", raw |-> raw, tokens |-> tokens]

\* inputs written with quotes, capitals and spare whitespace, and the empty one
SpacedInputs ==
    { ParseCall("", <<>>), ParseCall("   ", <<>>),
      ParseCall(" go  n ", <<"go", "n">>),
      ParseCall("\"n\"", <<"n">>),
      ParseCall("'Use Key ON the Door'", <<"use", "key", "on", "the", "door">>),
      ParseCall("\tTake the\tKEY", <<"take", "the", "key">>) }

ParseCalls ==
    { ParseCall(Join(<<v>> \o r, " "), <<v>> \o r) : v \in VerbTokens, r \in Remainders }
    \cup SpacedInputs

InitParse ==
    /\ world = None
    /\ state = None
    /\ last_command = None
    /\ result = None
    /\ call \in ParseCalls
    /\ call_value = None

\* parse_command(raw)
ParseCommand ==
    /\ call.fn = "parse_command"
    /\ call_value = None
    /\ call_value' = Some(parse_command(call.raw))
    /\ UNCHANGED <<world, state, last_command, result, call>>

NextParse == ParseCommand

SpecParse == InitParse /\ [][NextParse]_vars

\* the call has returned p
ParsedAs(p) == call.fn = "parse_command" /\ call_value = Some(p)

\* the tokens after the verb, a leading "the" skipped
Remainder == SkipThe(Tail(call.tokens))

(* C13: parse_command of "go n", of "north" and of "n" yields verb go and     *)
(* main_noun north with no error, and a direction alias that follows the     *)
(* verb go is given the full direction name the bare alias is given.         *)
C13_GoAliasCanonical ==
    (call.fn = "parse_command" /\ ~IsNone(call_value)) =>
        /\ call.raw \in {"go n", "north", "n"}
              => /\ Val(call_value).verb = Some("go")
                 /\ Val(call_value).main_noun = Some("north")
                 /\ IsNone(Val(call_value).error)
        /\ (Len(call.tokens) = 2 /\ Lower(call.tokens[1]) = "go"
              /\ Has(DIRECTION_ALIASES, call.tokens[2]))
              => Val(call_value).main_noun = parse_command(call.tokens[2]).main_noun

\* the verb the first token of the call stands for
VerbOf(token) ==
    IF Has(VERB_ALIASES, Lower(token)) THEN Get(VERB_ALIASES, Lower(token)) ELSE Lower(token)

\* the call names a verb that takes a noun, and words follow it
TakesNoun ==
    /\ Len(call.tokens) > 0
    /\ ~Has(DIRECTION_ALIASES, Lower(call.tokens[1]))
    /\ VerbOf(call.tokens[1]) \in VALID_VERBS \ {"look", "inventory"}

\* the joining word of the call: "on" if the words after the verb hold it,
\* else "to" if they hold it, else none
JoiningWord ==
    IF InList("on", Remainder) THEN Some("on")
    ELSE IF InList("to", Remainder) THEN Some("to")
    ELSE None

\* the verb of the call may be used with the joining word of the call
JoinAccepted ==
    \/ JoiningWord = Some("on") /\ VerbOf(call.tokens[1]) = "use"
    \/ JoiningWord = Some("to") /\ VerbOf(call.tokens[1]) \in {"talk", "give"}

(* C14: for a verb that takes a noun, the joining word "on" is accepted only *)
(* with use and "to" only with talk and give: "use key on door" yields verb  *)
(* use, main_noun key, target_noun door; a verb the joining word of the      *)
(* input is not accepted with yields the error "Invalid command." and no     *)
(* noun; a verb it is accepted with does not yield that error.               *)
C14_JoiningWord ==
    (call.fn = "parse_command" /\ ~IsNone(call_value)) =>
        /\ call.raw = "use key on door"
              => Val(call_value) =
                     ParsedCommand("use key on door", Some("use"), Some("key"), Some("door"),
                                   None)
        /\ (TakesNoun /\ ~IsNone(JoiningWord) /\ ~JoinAccepted)
              => /\ Val(call_value).error = Some("Invalid command.")
                 /\ IsNone(Val(call_value).main_noun)
                 /\ IsNone(Val(call_value).target_noun)
        /\ (TakesNoun /\ JoinAccepted)
              => Val(call_value).error # Some("Invalid command.")
        /\ ~IsNone(Val(call_value).target_noun) => TakesNoun /\ JoinAccepted

\* "open key on door" has been parsed and refused
C14_Witness ==
    /\ call.fn = "parse_command"
    /\ call.raw = "open key on door"
    /\ ~IsNone(call_value)
    /\ Val(call_value).error = Some("Invalid command.")

\* what parse_command asks for when the verb comes without a noun
MissingObject(verb) ==
    IF verb = "go" THEN "where" ELSE IF verb = "talk" THEN "to whom" ELSE "what"

(* C15: for every verb that takes a noun (go, take, drop, use, open, close,  *)
(* examine, talk, give), an input that is the verb token alone, or the verb  *)
(* token followed by "the", yields the error "<token> where?" for go,        *)
(* "<token> to whom?" for talk and "<token> what?" for the others, with      *)
(* main_noun None.                                                           *)
C15_MissingNoun ==
    (call.fn = "parse_command" /\ ~IsNone(call_value) /\ TakesNoun
        /\ Tail(call.tokens) \in {<<>>, <<"the">>}) =>
        /\ Val(call_value).error =
               Some(Lower(call.tokens[1]) \o " " \o MissingObject(VerbOf(call.tokens[1]))
                        \o "?")
        /\ IsNone(Val(call_value).main_noun)
        /\ IsNone(Val(call_value).target_noun)

\* "talk the" has been parsed: the parser asks to whom
C15_Witness ==
    /\ call.fn = "parse_command"
    /\ call.tokens = <<"talk", "the">>
    /\ call_value = Some(ParsedCommand("talk the", Some("talk"), None, None,
                                       Some("talk to whom?")))

---------------------------------------------------------------------------
(* The validator, called on its own: World.validate, validate_resolvable_text *)

MaxDefects == 2

MaxExits == 2

\* the places of a world definition that hold a reference to a declared id
DefectSlots ==
    {"start", "initial_inventory", "initial_companions", "location_item", "exit_to",
     "interaction_item", "interaction_target", "requires_flags", "blocking_flags",
     "requires_inventory", "requires_companions", "set_flags", "clear_flags"}

\* the id undeclared anywhere that a defect puts in a slot
Undeclared(slot) == "no_" \o slot

\* the id written in a slot: the declared one, or an undeclared one
Ref(slot, defects, declared) == IF slot \in defects THEN Undeclared(slot) ELSE declared

\* A world validate() reports no issue for, with the references of the slots in
\* defects replaced by ids that are not declared.
DefectWorld(defects) ==
    World(
        Header("Vault", Ref("start", defects, "hall"),
               << Ref("initial_inventory", defects, "coin") >>,
               << Ref("initial_companions", defects, "imp") >>, None),
        {"lit", "shut"},
        << Entry("coin", Item("Coin", "A gold coin.", None, TRUE, <<>>)),
           Entry("imp", Item("Imp", "A small imp.", None, FALSE, <<>>)),
           Entry("lamp", Item("Lamp", "An oil lamp.", None, TRUE, <<>>)),
           Entry("door", Item("Door", "A vault door.", None, FALSE, <<>>)) >>,
        << Entry("hall", Location("Hall", "A long hall.",
                    << Entry("east",
                             Exit(Ref("exit_to", defects, "vault"), "the vault",
                                  Some(Criteria({Ref("requires_flags", defects, "lit")},
                                                {Ref("blocking_flags", defects, "shut")},
                                                {Ref("requires_inventory", defects, "coin")},
                                                {Ref("requires_companions", defects, "imp")})),
                                  Some("It is too dark."))),
                       Entry("in", Exit("vault", "a crack", None, None)) >>,
                    << Ref("location_item", defects, "lamp") >>)),
           Entry("vault", Location("Vault", "A steel vault.",
                    << Entry("west", Exit("hall", "the hall", None, None)) >>,
                    << "door" >>)) >>,
        << Entry("imp", NPC(None, <<>>, None)) >>,
        << Entry("light",
                 Interaction("use", Ref("interaction_item", defects, "lamp"),
                             Some(Ref("interaction_target", defects, "door")), None,
                             Some(Effect({Ref("set_flags", defects, "lit")},
                                         {Ref("clear_flags", defects, "shut")})),
                             Some(PlainText("The lamp flares.")), None, FALSE, TRUE)) >>)

\* the locations of the worlds built to be searched, in declaration order
LocationIds == <<"a", "b", "c">>

\* the exits of a location that leads to each location of the set tos
ExitsTo(tos) ==
    LET Leads(loc_id) == loc_id \in tos
    IN  [i \in DOMAIN Filter(LocationIds, Leads) |->
            Entry("to " \o Filter(LocationIds, Leads)[i],
                  Exit(Filter(LocationIds, Leads)[i], "", None, None))]

\* A world of three bare locations; location LocationIds[i] leads to the
\* locations of tos[i]
ReachWorld(tos) ==
    World(Header("Maze", "a", <<>>, <<>>, None), {}, <<>>,
          [i \in DOMAIN LocationIds |->
              Entry(LocationIds[i], Location(LocationIds[i], "", ExitsTo(tos[i]), <<>>))],
          <<>>, <<>>)

MaxNodes == 2

\* the names a jump_target declares and a jump names
JumpNames == {"x", "y"}

\* the dialog nodes of the worlds built for jumps: no jump_target or one of the
\* names; no jump, one of the names, or a list of two clauses
JumpNodes ==
    { DialogLeaf(FALSE, None, jump_target, Some(PlainText("Aye.")), jump) :
        jump_target \in {None} \cup { Some(n) : n \in JumpNames },
        jump \in {None} \cup { Some(PlainText(n)) : n \in JumpNames }
                 \cup { Some(ClauseList(<< ConditionalText("x", RequiresFlags({"lit"})),
                                           ConditionalText("y", None) >>)) } }

\* a dialog root that says a line and offers the responses
JumpRoot(responses) ==
    DialogTree(FALSE, None, None, None, Some(PlainText("Hm.")), None, None, responses)

\* an interaction of verb talk on the imp that carries the dialog tree
JumpInteraction(dialog) ==
    Interaction("talk", "imp", None, None, None, None, Some(dialog), FALSE, TRUE)

\* DefectWorld(defects) with dialog trees that hold the nodes: the first node
\* is a response of the root of 'parley' and the others are its responses,
\* but for the last, which is a response of the root of 'haggle' when apart
JumpWorld(defects, nodes, apart) ==
    [DefectWorld(defects) EXCEPT
        !.interactions =
            @ \o << Entry("parley",
                       JumpInteraction(JumpRoot(
                           << Entry("reply 1",
                                    [nodes[1] EXCEPT
                                        !.responses =
                                            [i \in 1..(Len(nodes) - 1
                                                         - (IF apart THEN 1 ELSE 0)) |->
                                                Entry("reply " \o ToString(i + 1),
                                                      nodes[i + 1])]]) >>))) >>
              \o (IF apart
                  THEN << Entry("haggle",
                                JumpInteraction(JumpRoot(
                                    << Entry("reply " \o ToString(Len(nodes)),
                                             nodes[Len(nodes)]) >>))) >>
                  ELSE <<>>)]

ValidateCall(defects) ==
    [fn |-> "validate", defects |-> defects, text |-> None]

TextValidateCall(text) ==
    [fn |-> "validate_resolvable_text", defects |-> {}, text |-> Some(text)]

InitValidate ==
    /\ state = None
    /\ last_command = None
    /\ result = None
    /\ call_value = None
    /\ \/ \E defects \in SubsetsUpTo(DefectSlots, MaxDefects) :
             /\ world = DefectWorld(defects)
             /\ call = ValidateCall(defects)
       \/ \E tos \in [DOMAIN LocationIds -> SubsetsUpTo(Range(LocationIds), MaxExits)] :
             /\ world = ReachWorld(tos)
             /\ call = ValidateCall({})
       \/ \E cl \in ClauseLists(DefectWorld({})) :
             /\ world = DefectWorld({})
             /\ call = TextValidateCall(ClauseList(cl))
       \/ \E defects \in SUBSET {"start"}, n \in 2..MaxNodes, apart \in BOOLEAN :
             \E nodes \in [1..n -> JumpNodes] :
                /\ world = JumpWorld(defects, nodes, apart)
                /\ call = ValidateCall(defects)

\* World.validate()
Validate ==
    /\ call.fn = "validate"
    /\ call_value = None
    /\ call_value' = Some(validate(world))
    /\ UNCHANGED <<world, state, last_command, result, call>>

\* World.validate_resolvable_text(text, state, owner_desc), on a fresh state
ValidateResolvableText ==
    /\ call.fn = "validate_resolvable_text"
    /\ call_value = None
    /\ call_value' = Some([exc |-> None,
                           issues |-> validate_resolvable_text(world, call.text,
                                                               "text").issues])
    /\ UNCHANGED <<world, state, last_command, result, call>>

NextValidate ==
    \/ Validate
    \/ ValidateResolvableText

SpecValidate == InitValidate /\ [][NextValidate]_vars

---------------------------------------------------------------------------
(* Properties of the validator *)

\* sub occurs in the string s
Contains(s, sub) ==
    \E i \in 1..(Len(s) - Len(sub) + 1) : SubSeq(s, i, i + Len(sub) - 1) = sub

\* one of the issues names the id
Reported(issues, id) == \E i \in DOMAIN issues : Contains(issues[i], "'" \o id \o "'")

\* the slots whose undeclared ids validate() is to report
ReferenceSlots == DefectSlots \ {"start"}

(* C16: when validate() returns, its issues name every id that is referenced *)
(* and not declared: in the initial inventory, the initial companions, a     *)
(* location's item list, an exit's destination, an interaction's item and    *)
(* target, a criteria's flags, inventory items and companions, and an        *)
(* effect's flags to set and to clear.                                       *)
C16_UndeclaredAreReported ==
    (call.fn = "validate" /\ ~IsNone(call_value) /\ IsNone(Val(call_value).exc)) =>
        \A slot \in call.defects \cap ReferenceSlots :
            Reported(Val(call_value).issues, Undeclared(slot))

\* the locations reached from the locations of seen by following exits
RECURSIVE ReachableFrom(_, _)
ReachableFrom(w, seen) ==
    LET next == seen \cup
                  { e.v.to : e \in UNION { Range(Get(w.locations, loc_id).exits) :
                                             loc_id \in seen } }
        found == next \cap KeySet(w.locations)
    IN  IF found = seen THEN seen ELSE ReachableFrom(w, found)

\* the locations no path of exits leads to from the start, in declaration order
UnreachableLocations(w) ==
    LET Unreached(loc_id) ==
            loc_id \notin ReachableFrom(w, {w.world.start} \cap KeySet(w.locations))
    IN  Filter(Keys(w.locations), Unreached)

IsUnreachableIssue(issue) == Contains(issue, "Unreachable locations")

(* C17: validate() returns a list of issues in which "Unreachable            *)
(* locations: ..." lists exactly the locations no path of exits leads to     *)
(* from the start location, and which holds no such issue when every         *)
(* location is reached; the search ends on every world, cycles of exits      *)
(* included.                                                                 *)
C17_UnreachableLocations ==
    (call.fn = "validate" /\ ~IsNone(call_value)) =>
        /\ IsNone(Val(call_value).exc)
        /\ Filter(Val(call_value).issues, IsUnreachableIssue) =
              IF UnreachableLocations(world) = <<>> THEN <<>>
              ELSE << "Unreachable locations: " \o Join(UnreachableLocations(world), ", ")
                         \o "." >>

\* the issue validate_resolvable_text writes for a clause that has no criteria
NoCriteriaIssue(i) ==
    "clause " \o ToString(i)
        \o " of text does not have a criteria. Subsequent clauses will never be considered."

LastCriteriaIssue == "Last clause of resolvable text must not have a criteria in text"

(* C18: for a clause list, validate_resolvable_text reports an issue for     *)
(* every clause but the last that has no criteria, and an issue when the     *)
(* last clause has a criteria; a list it reports nothing for has a criteria  *)
(* on every clause but the last and none on the last.                        *)
C18_ClauseOrdering ==
    (call.fn = "validate_resolvable_text" /\ ~IsNone(call_value)
        /\ Len(Val(call.text).clauses) > 0) =>
        LET clauses == Val(call.text).clauses
            issues == Val(call_value).issues
        IN  /\ \A i \in 1..(Len(clauses) - 1) :
                  IsNone(clauses[i].criteria) => InList(NoCriteriaIssue(i), issues)
            /\ ~IsNone(clauses[Len(clauses)].criteria) => InList(LastCriteriaIssue, issues)
            /\ issues = <<>> =>
                  /\ \A i \in 1..(Len(clauses) - 1) : ~IsNone(clauses[i].criteria)
                  /\ IsNone(clauses[Len(clauses)].criteria)

(* C19: validate() returns its list of issues for every world and no defect  *)
(* keeps the checks from running: for a world whose header start is not a    *)
(* declared location it returns a list that holds issues, and does not       *)
(* raise.                                                                    *)
C19_ValidateReturns ==
    (call.fn = "validate" /\ ~IsNone(call_value)) =>
        /\ IsNone(Val(call_value).exc)
        /\ ~Has(world.locations, world.world.start) => Len(Val(call_value).issues) > 0

---------------------------------------------------------------------------
(* Properties of talk *)

(* C20: talk <noun> resolves the noun among the items of the current         *)
(* location only; when the noun resolves to an item that is not an NPC, or   *)
(* to an NPC without a dialog, the result is NO_EFFECT, nothing is raised    *)
(* and the session state is as before.                                       *)
C20_TalkWithoutDialog ==
    Has(state.location_items, state.location_id) =>
        \A noun \in Nouns(world) :
            LET found == resolve_item(world, state, noun, TRUE, FALSE)
                out == handle_talk(world, state, noun)
            IN  /\ (IsNone(found.exc) /\ ~IsNone(found.error))
                      => out = invalid_result(state, Val(found.error))
                /\ ~IsNone(found.item_id)
                      => out.res.status = "no_effect" /\ out.st = state


---------------------------------------------------------------------------
(* handle_interaction: selection, dialog, consumption, resolution *)

\* the verbs handle_command hands to handle_interaction
InteractionVerbs == VALID_VERBS \ {"look", "inventory", "go", "take", "drop", "examine", "talk"}

\* the command is one handle_command hands to handle_interaction
IsInteractionCommand(command) ==
    /\ ~IsNone(command.verb)
    /\ ~IsNone(command.main_noun)
    /\ Val(command.verb) \in InteractionVerbs

\* the resolution of the command's main noun by handle_interaction
MainResult(w, s, command) ==
    resolve_item(w, s, Val(command.main_noun), ~StrTruthy(command.target_noun), TRUE)

\* the resolution of the command's target noun, when it has one
TargetResult(w, s, command) ==
    IF StrTruthy(command.target_noun)
    THEN resolve_item(w, s, Val(command.target_noun), TRUE, FALSE)
    ELSE [exc |-> None, item_id |-> None, error |-> None]

\* both nouns of the command resolve to an item id
Resolves(w, s, command) ==
    /\ IsInteractionCommand(command)
    /\ ~IsNone(MainResult(w, s, command).item_id)
    /\ IsNone(TargetResult(w, s, command).exc)
    /\ IsNone(TargetResult(w, s, command).error)

\* the positions, in declaration order, of the interactions whose triple is the
\* resolved command and whose criteria is satisfied
Matching(w, s, command) ==
    { i \in DOMAIN w.interactions :
        /\ w.interactions[i].v.verb = Val(command.verb)
        /\ w.interactions[i].v.item = Val(MainResult(w, s, command).item_id)
        /\ w.interactions[i].v.target = TargetResult(w, s, command).item_id
        /\ is_criteria_satisfied(w, s, w.interactions[i].v.criteria) }

\* the first of them
FirstMatching(w, s, command) ==
    w.interactions[CHOOSE i \in Matching(w, s, command) :
                      \A j \in Matching(w, s, command) : i <= j]

(* C21: a command whose nouns resolve selects the first interaction, in      *)
(* declaration order, whose (verb, item, target) is the resolved command and *)
(* whose criteria is satisfied.  With none the result is NO_EFFECT.  If the  *)
(* first is non-repeatable and completed the result is NO_EFFECT "You        *)
(* already did that." and nothing changes, whatever follows it.  Otherwise   *)
(* the first, and no other, is applied: its id alone joins                   *)
(* completed_interactions and the flags are changed by its effect alone.     *)
C21_FirstMatchingIsSelected ==
    \A command \in Commands(world) :
        Resolves(world, state, command) =>
            LET out == handle_command(world, state, command)
                matching == Matching(world, state, command)
                first == FirstMatching(world, state, command)
            IN  IF matching = {}
                THEN out.res = ActionResult("no_effect", "That didn't work.")
                     /\ out.st = state
                ELSE IF ~first.v.repeatable /\ first.k \in state.completed_interactions
                THEN out.res = AlreadyDone /\ out.st = state
                ELSE /\ out.res.status \in {"ok", "raised"}
                     /\ out.st.completed_interactions
                            = state.completed_interactions \cup {first.k}
                     /\ out.st.flags = apply_effect(state, first.v.effect).flags
                     /\ out.res.status = "ok"
                            => out.res.message
                                  = resolve_opt_text(world, out.st, first.v.message).val

\* "You already did that." has just been returned for a command that a later
\* interaction with the same triple and a satisfied criteria matches too
C21_Witness ==
    /\ result = Some(AlreadyDone)
    /\ ~IsNone(last_command)
    /\ Resolves(world, state, Val(last_command))
    /\ Cardinality(Matching(world, state, Val(last_command))) >= 2


\* the command selects an interaction that carries a dialog tree and no message
\* and that handle_interaction applies
AppliesDialog(w, s, command) ==
    /\ Resolves(w, s, command)
    /\ Matching(w, s, command) # {}
    /\ ~IsNone(FirstMatching(w, s, command).v.dialog)
    /\ ~TextTruthy(FirstMatching(w, s, command).v.message)
    /\ \/ FirstMatching(w, s, command).v.repeatable
       \/ FirstMatching(w, s, command).k \notin s.completed_interactions

(* C22: a command that applies an interaction carrying a dialog tree and no  *)
(* message does not raise: it returns what trigger_dialog returns for the    *)
(* root of the tree in the state apply_interaction leaves, an OK result      *)
(* built from the root's narrative, and the root's effect is applied.        *)
C22_DialogIsEntered ==
    \A command \in Commands(world) :
        AppliesDialog(world, state, command) =>
            LET x == FirstMatching(world, state, command)
                out == handle_command(world, state, command)
                entered == trigger_dialog(world,
                                          apply_interaction(world, state, x.k, x.v),
                                          x.v.item, Val(x.v.dialog))
            IN  /\ out.res.status # "raised"
                /\ out.res = entered.res
                /\ out.st = entered.st


\* the command selects an interaction that handle_interaction applies
Applies(w, s, command) ==
    /\ Resolves(w, s, command)
    /\ Matching(w, s, command) # {}
    /\ \/ FirstMatching(w, s, command).v.repeatable
       \/ FirstMatching(w, s, command).k \notin s.completed_interactions

(* C23: on a world validate() reports no issue for, a command that applies   *)
(* an interaction whose consumes flag is set raises nothing before the       *)
(* message is resolved, the removal included, and when it returns OK the     *)
(* interaction's item is in neither the inventory nor the item list of any   *)
(* location.                                                                 *)
C23_ConsumedItemIsGone ==
    Valid(world) =>
        \A command \in Commands(world) :
            (/\ Applies(world, state, command)
             /\ FirstMatching(world, state, command).v.consumes) =>
                LET x == FirstMatching(world, state, command)
                    out == handle_command(world, state, command)
                IN  /\ out.res.status = "raised"
                          => ~IsNone(resolve_opt_text(world, out.st, x.v.message).exc)
                    /\ out.res.status = "ok" => Places(out.st, x.v.item) = {}


\* commands with a target noun, over every pair of nouns of the world
TargetCommands(w) ==
    { ParsedCommand(verb \o " " \o main \o joining_word(verb) \o target,
                    Some(verb), Some(main), Some(target), None) :
        verb \in {"use", "give"}, main \in Nouns(w), target \in Nouns(w) }

\* the item list of the current location
current_location_items(s) == Get(s.location_items, s.location_id)

\* the ids of a list whose item answers to the noun
Answering(w, ids, noun) ==
    LET IsNamed(item_id) ==
            \/ Lower(Get(w.items, item_id).name) = noun
            \/ \E i \in DOMAIN Get(w.items, item_id).aliases :
                  Lower(Get(w.items, item_id).aliases[i]) = noun
    IN  SelectSeq(ids, IsNamed)

\* the error of a resolution that finds these ids: none when there is one id
ResolutionError(found, noun, nothing) ==
    IF Len(found) = 0 THEN Some(nothing)
    ELSE IF Len(found) > 1 THEN Some("Which " \o noun \o "?")
    ELSE None

\* the error the main noun of the command resolves with: the inventory alone is
\* searched when the command has a target noun
MainError(w, s, command) ==
    IF StrTruthy(command.target_noun)
    THEN ResolutionError(Answering(w, s.inventory, Val(command.main_noun)),
                         Val(command.main_noun),
                         "You are not carrying a " \o Val(command.main_noun) \o ".")
    ELSE ResolutionError(Answering(w, current_location_items(s) \o s.inventory, Val(command.main_noun)),
                         Val(command.main_noun),
                         "There is no " \o Val(command.main_noun) \o " here.")

\* the error the target noun resolves with: the current location is searched
TargetError(w, s, command) ==
    IF ~StrTruthy(command.target_noun) THEN None
    ELSE ResolutionError(Answering(w, current_location_items(s), Val(command.target_noun)),
                         Val(command.target_noun),
                         "There is no " \o Val(command.target_noun) \o " here.")

TakeCommand(noun) == ParsedCommand("take " \o noun, Some("take"), Some(noun), None, None)

(* C25: on a world validate() reports no issue for, take <noun> looks at the *)
(* item list of the current location only.  With no item of that list        *)
(* answering to the noun (one that is carried or lies elsewhere included)    *)
(* the result is INVALID; with one item, not portable, it is NO_EFFECT       *)
(* "You cannot take the X."; in both cases nothing changes.  With one item,  *)
(* portable, the result is OK, the id leaves the current location's list and *)
(* is appended to the inventory, and the other lists, the location, the      *)
(* flags and the completed interactions are unchanged.                       *)
C25_TakeFromCurrentLocation ==
    Valid(world) =>
        \A noun \in Nouns(world) :
            LET out == handle_command(world, state, TakeCommand(noun))
                found == Range(Answering(world, current_location_items(state), noun))
                item_id == CHOOSE id \in found : TRUE
            IN  IF found = {}
                THEN /\ out.res = ActionResult("invalid", "There is no " \o noun \o " here.")
                     /\ out.st = state
                ELSE IF Cardinality(found) > 1
                THEN /\ out.res = ActionResult("invalid", "Which " \o noun \o "?")
                     /\ out.st = state
                ELSE IF ~Get(world.items, item_id).portable
                THEN /\ out.res = ActionResult("no_effect",
                                      "You cannot take the "
                                          \o Get(world.items, item_id).name \o ".")
                     /\ out.st = state
                ELSE /\ out.res.status = "ok"
                     /\ out.st.inventory = Append(state.inventory, item_id)
                     /\ current_location_items(out.st)
                            = SelectSeq(current_location_items(state),
                                        LAMBDA id : id # item_id)
                     /\ \A i \in DOMAIN state.location_items :
                            state.location_items[i].k # state.location_id
                                => out.st.location_items[i] = state.location_items[i]
                     /\ Keys(out.st.location_items) = Keys(state.location_items)
                     /\ out.st.location_id = state.location_id
                     /\ out.st.flags = state.flags
                     /\ out.st.completed_interactions = state.completed_interactions


\* talk <noun> as parse_command returns it for "talk to <noun>"
TalkCommand(noun) == ParsedCommand("talk to " \o noun, Some("talk"), Some(noun), None, None)

(* C26: on a world validate() reports no issue for, talk <npc>, for an NPC   *)
(* in the current location that an interaction of verb talk with a satisfied *)
(* criteria is written for, applies that interaction: the result is the OK   *)
(* resolved message and the interaction is recorded as completed.            *)
C26_TalkInteractionIsApplied ==
    Valid(world) =>
        \A i \in DOMAIN world.interactions :
            LET x == world.interactions[i]
                noun == Lower(Get(world.items, x.v.item).name)
                out == handle_raw_command(world, state, "talk to " \o noun)
            IN  (/\ x.v.verb = "talk"
                 /\ Has(world.npcs, x.v.item)
                 /\ Answering(world, current_location_items(state), noun) = <<x.v.item>>
                 /\ is_criteria_satisfied(world, state, x.v.criteria)
                 /\ Parsed("talk to " \o noun) = TalkCommand(noun))
                    => /\ out.res.status = "ok"
                       /\ x.k \in out.st.completed_interactions
                       /\ out.st.flags = apply_effect(state, x.v.effect).flags


---------------------------------------------------------------------------
(* trigger_dialog and apply_effect called on a session of the Shrine *)

MaxResponses == 2

\* the criteria of a response: none, or one declared flag required or blocking
ResponseCriteria(w) ==
    {None} \cup { RequiresFlags({f}) : f \in w.flags } \cup { BlockedByFlags({f}) : f \in w.flags }

\* the response nodes: internal or not, with one of the criteria
ResponseNodes(w) ==
    { DialogLeaf(internal, criteria, IF internal THEN Some("aside") ELSE None,
                 Some(PlainText("So it is.")), None) :
        internal \in BOOLEAN, criteria \in ResponseCriteria(w) }

\* up to MaxResponses responses; response i has the keyword "reply i"
ResponseMaps(w) ==
    UNION { { [i \in 1..n |-> Entry("reply " \o ToString(i), r[i])] :
              r \in [1..n -> ResponseNodes(w)] } : n \in 0..MaxResponses }

\* the dialog nodes trigger_dialog is called on
DialogInputs(w) ==
    { DialogTree(FALSE, None, None, player_narrative, Some(PlainText("Well met.")), effect,
                 None, responses) :
        player_narrative \in {None, Some(PlainText("You bow."))},
        effect \in {None} \cup { Some(Effect({f}, {})) : f \in w.flags }
                          \cup { Some(Effect({}, {f})) : f \in w.flags },
        responses \in ResponseMaps(w) }

\* the effects apply_effect is called with
OptionalEffects(w) ==
    {None} \cup { Some(Effect(set_flags, clear_flags)) :
                    set_flags \in SUBSET w.flags, clear_flags \in SUBSET w.flags }

DialogCall(npc_id, dialog) ==
    [fn |-> "trigger_dialog", npc_id |-> npc_id, dialog |-> Some(dialog), effect |-> None]

EffectCall(effect) ==
    [fn |-> "apply_effect", npc_id |-> "", dialog |-> None, effect |-> effect]

\* a session of the Shrine holding some of its flags, and one call to make on it
InitDialog ==
    /\ world = Shrine
    /\ \E flags \in SUBSET world.flags :
          state = [move_companions(world, get_initial_game_state(world)).st
                       EXCEPT !.flags = flags]
    /\ last_command = None
    /\ result = None
    /\ call \in { DialogCall("monk", dialog) : dialog \in DialogInputs(world) }
                \cup { EffectCall(effect) : effect \in OptionalEffects(world) }
    /\ call_value = None

\* GameEngine.trigger_dialog(npc_id, dialog): the value holds the ActionResult
\* and the engine's next_dialog_context
TriggerDialog ==
    /\ call.fn = "trigger_dialog"
    /\ call_value = None
    /\ state' = trigger_dialog(world, state, call.npc_id, Val(call.dialog)).st
    /\ call_value' =
          Some([before |-> state,
                res |-> trigger_dialog(world, state, call.npc_id, Val(call.dialog)).res,
                next_dialog_context |->
                    Some([npc_id |-> call.npc_id, dialog_node |-> Val(call.dialog)])])
    /\ UNCHANGED <<world, last_command, result, call>>

\* GameEngine.apply_effect(effect), which returns None: the value holds the
\* session state the call was made in
ApplyOptionalEffect ==
    /\ call.fn = "apply_effect"
    /\ call_value = None
    /\ state' = apply_effect(state, call.effect)
    /\ call_value' = Some([before |-> state, res |-> None, next_dialog_context |-> None])
    /\ UNCHANGED <<world, last_command, result, call>>

NextDialog ==
    \/ TriggerDialog
    \/ ApplyOptionalEffect

SpecDialog == InitDialog /\ [][NextDialog]_vars

\* the message names the keyword as a possible response
Listed(message, keyword) == Contains(message, "'" \o keyword \o "'")

(* C27: after trigger_dialog on a node, the keywords the result lists are    *)
(* those of the node's responses whose criteria is satisfied in the state    *)
(* the call leaves and that are not marked internal, and no others.          *)
C27_ListedResponses ==
    (call.fn = "trigger_dialog" /\ ~IsNone(call_value)) =>
        /\ Val(call_value).res.status = "ok"
        /\ \A i \in DOMAIN Val(call.dialog).responses :
              LET response == Val(call.dialog).responses[i]
              IN  Listed(Val(call_value).res.message, response.k)
                      <=> /\ is_criteria_satisfied(world, state, response.v.criteria)
                          /\ ~response.v.internal

(* C28: apply_effect leaves in state.flags the flags it held and those of    *)
(* set_flags, less those of clear_flags, so that a flag in both is absent;   *)
(* inventory, location item lists, location and completed interactions are   *)
(* as before, and with no effect the whole state is.                         *)
C28_ApplyEffect ==
    (call.fn = "apply_effect" /\ ~IsNone(call_value)) =>
        LET before == Val(call_value).before
        IN  IF IsNone(call.effect) THEN state = before
            ELSE /\ state.flags = (before.flags \cup Val(call.effect).set_flags)
                                      \ Val(call.effect).clear_flags
                 /\ \A f \in Val(call.effect).set_flags \cap Val(call.effect).clear_flags :
                        f \notin state.flags
                 /\ state.inventory = before.inventory
                 /\ state.location_items = before.location_items
                 /\ state.location_id = before.location_id
                 /\ state.completed_interactions = before.completed_interactions

\* an effect that names the same flag in set_flags and clear_flags has been
\* applied, and set a flag that was not held
C28_Witness ==
    /\ call.fn = "apply_effect"
    /\ ~IsNone(call_value)
    /\ ~IsNone(call.effect)
    /\ Val(call.effect).set_flags \cap Val(call.effect).clear_flags # {}
    /\ state.flags \ Val(call_value).before.flags # {}
    /\ state.inventory # <<>>


---------------------------------------------------------------------------
(* parse_command: the words around the joining word *)

\* the words of the call before its joining word
BeforeJoin == SubSeq(Remainder, 1, IndexOf(Remainder, Val(JoiningWord)) - 1)

\* the words of the call after its joining word, a leading "the" skipped
AfterJoin ==
    SkipThe(SubSeq(Remainder, IndexOf(Remainder, Val(JoiningWord)) + 1, Len(Remainder)))

\* what parse_command asks for when nothing follows the joining word
MissingTarget(verb) == IF verb \in {"give", "talk"} THEN "whom" ELSE "what"

(* C29: for a verb used with a joining word it is accepted with, an input    *)
(* with no word before the joining word and words after it ("talk to key")   *)
(* yields those words as main_noun, target_noun None and no error; an input  *)
(* with no word after the joining word yields target_noun None and the error *)
(* "<token> the <main noun> <joining word> what?" (whom for give and talk),  *)
(* or "<token> <joining word> what?" when no word precedes the joining word. *)
C29_PromotedAndMissingTarget ==
    (call.fn = "parse_command" /\ ~IsNone(call_value) /\ TakesNoun /\ JoinAccepted) =>
        /\ (BeforeJoin = <<>> /\ AfterJoin # <<>>)
              => /\ Val(call_value).main_noun = Some(Join(AfterJoin, " "))
                 /\ IsNone(Val(call_value).target_noun)
                 /\ IsNone(Val(call_value).error)
        /\ AfterJoin = <<>>
              => /\ IsNone(Val(call_value).target_noun)
                 /\ Val(call_value).error =
                        Some(Lower(call.tokens[1])
                             \o (IF BeforeJoin = <<>> THEN ""
                                 ELSE " the " \o Join(BeforeJoin, " "))
                             \o " " \o Val(JoiningWord) \o " "
                             \o MissingTarget(VerbOf(call.tokens[1])) \o "?")

\* "talk to the key" has been parsed: the key is the main noun
C29_Witness ==
    /\ call.fn = "parse_command"
    /\ call.tokens = <<"talk", "to", "the", "key">>
    /\ call_value = Some(ParsedCommand("talk to the key", Some("talk"), Some("key"), None,
                                       None))


---------------------------------------------------------------------------
(* validate(): dialog jumps *)

\* a dialog tree's nodes, the root first
RECURSIVE DialogNodes(_)
DialogNodes(tree) ==
    <<tree>> \o Flatten([i \in DOMAIN tree.responses |-> DialogNodes(tree.responses[i].v)])

\* the dialog nodes of every interaction of the world
WorldDialogNodes(w) ==
    Flatten([i \in DOMAIN w.interactions |->
                IF IsNone(w.interactions[i].v.dialog) THEN <<>>
                ELSE DialogNodes(Val(w.interactions[i].v.dialog))])

\* the jump_target names the nodes declare
DeclaredTargets(nodes) ==
    { Val(nodes[i].jump_target) : i \in { j \in DOMAIN nodes : StrTruthy(nodes[j].jump_target) } }

\* the names the jumps of the nodes name, every clause of a list included
NamedJumps(nodes) ==
    UNION { IF IsNone(nodes[i].jump) THEN {}
            ELSE IF Val(nodes[i].jump).kind = "str"
            THEN {Val(nodes[i].jump).text} \ {""}
            ELSE { Val(nodes[i].jump).clauses[k].text : k \in DOMAIN Val(nodes[i].jump).clauses } :
            i \in DOMAIN nodes }

\* the issue of the list that starts with the words, if there is one
IssueStarting(issues, words) ==
    { issues[i] : i \in { j \in DOMAIN issues :
                             /\ Len(issues[j]) >= Len(words)
                             /\ SubSeq(issues[j], 1, Len(words)) = words } }

(* C30: validate() of a world reports "... has a duplicate jump target."     *)
(* if and only if two dialog nodes of the world declare the same             *)
(* jump_target; it reports "Invalid dialog jumps: ..." with the names, if    *)
(* and only if some jump, a clause of a list included, names no declared     *)
(* jump_target; and it reports "Unreferenced dialog jump targets: ..." with  *)
(* the names, if and only if some declared jump_target is named by no jump.  *)
C30_DialogJumps ==
    (call.fn = "validate" /\ ~IsNone(call_value)) =>
        LET nodes == WorldDialogNodes(world)
            issues == Val(call_value).issues
            invalid == NamedJumps(nodes) \ DeclaredTargets(nodes)
            unreferenced == DeclaredTargets(nodes) \ NamedJumps(nodes)
        IN  /\ (\E i, j \in DOMAIN nodes :
                    i # j /\ StrTruthy(nodes[i].jump_target)
                          /\ nodes[i].jump_target = nodes[j].jump_target)
                  <=> \E k \in DOMAIN issues : Contains(issues[k], "has a duplicate jump target.")
            /\ invalid # {} <=> IssueStarting(issues, "Invalid dialog jumps: ") # {}
            /\ \A issue \in IssueStarting(issues, "Invalid dialog jumps: ") :
                  \A name \in JumpNames : name \in invalid <=> Contains(issue, " " \o name)
            /\ unreferenced # {}
                  <=> IssueStarting(issues, "Unreferenced dialog jump targets: ") # {}
            /\ \A issue \in IssueStarting(issues, "Unreferenced dialog jump targets: ") :
                  \A name \in JumpNames : name \in unreferenced <=> Contains(issue, " " \o name)

---------------------------------------------------------------------------
(* persistence.py: the snapshot of the session state *)

\* state.<name>: GameEngineState is a dataclass of the five fields of
\* GameEngineState(...) above; companions is a property of GameEngine, not of
\* the state
state_attribute(s, name) ==
    IF name \in DOMAIN s THEN Value(s[name]) ELSE Throws("AttributeError")

\* the dict literal evaluates its values in the order written; list(set) keeps
\* the members in some order
state_to_dict(s) ==
    IF ~IsNone(state_attribute(s, "location_id").exc) THEN Throws("AttributeError")
    ELSE IF ~IsNone(state_attribute(s, "inventory").exc) THEN Throws("AttributeError")
    ELSE IF ~IsNone(state_attribute(s, "companions").exc) THEN Throws("AttributeError")
    ELSE IF ~IsNone(state_attribute(s, "flags").exc) THEN Throws("AttributeError")
    ELSE IF ~IsNone(state_attribute(s, "location_items").exc) THEN Throws("AttributeError")
    ELSE IF ~IsNone(state_attribute(s, "completed_interactions").exc)
         THEN Throws("AttributeError")
    ELSE Value(<< Entry("location_id", s.location_id),
                  Entry("inventory", s.inventory),
                  Entry("companions", s.companions),
                  Entry("flags", SetToSeq(s.flags)),
                  Entry("location_items", s.location_items),
                  Entry("completed_interactions", SetToSeq(s.completed_interactions)) >>)

\* every data[key] is evaluated before the call (KeyError on a missing key);
\* the call then rejects a keyword that is no parameter of
\* GameEngineState.__init__ (TypeError)
state_from_dict(data) ==
    LET keywords == << "location_id", "inventory", "companions", "flags",
                       "location_items", "completed_interactions" >>
        parameters == {"location_id", "inventory", "flags", "location_items",
                       "completed_interactions"}
    IN  IF \E i \in DOMAIN keywords : ~Has(data, keywords[i]) THEN Throws("KeyError")
        ELSE IF ~(Range(keywords) \subseteq parameters) THEN Throws("TypeError")
        ELSE Value(GameEngineState(Get(data, "location_id"),
                                   Get(data, "inventory"),
                                   Range(Get(data, "flags")),
                                   Get(data, "location_items"),
                                   Range(Get(data, "completed_interactions"))))

(* C31: for the session state s, state_from_dict(state_to_dict(s)) succeeds  *)
(* and yields a state with the location id, the inventory, the flags, the    *)
(* item lists of the locations and the completed interactions of s.          *)
C31_SnapshotRoundTrip ==
    LET saved == state_to_dict(state)
    IN  /\ IsNone(saved.exc)
        /\ LET loaded == state_from_dict(saved.val)
           IN  /\ IsNone(loaded.exc)
               /\ loaded.val.location_id = state.location_id
               /\ loaded.val.inventory = state.inventory
               /\ loaded.val.flags = state.flags
               /\ loaded.val.location_items = state.location_items
               /\ loaded.val.completed_interactions = state.completed_interactions

---------------------------------------------------------------------------
(* parse_command: the shape of a command parsed without error *)

\* o is None or holds a string that is not empty
NoneOrNonEmpty(o) == IsNone(o) \/ Val(o) # ""

(* C32: whenever parse_command returns no error, verb is a member of the     *)
(* fixed verb set, and either verb is look or inventory with main_noun and   *)
(* target_noun both None, or main_noun is a non-empty string and target_noun *)
(* is None or a non-empty string; so handle_command, called with the parsed  *)
(* command in the initial state of any world, does not fail an assertion.    *)
C32_ParsedShape ==
    (call.fn = "parse_command" /\ ~IsNone(call_value) /\ IsNone(Val(call_value).error)) =>
        LET command == Val(call_value)
        IN  /\ ~IsNone(command.verb)
            /\ Val(command.verb) \in VALID_VERBS
            /\ \/ /\ Val(command.verb) \in {"look", "inventory"}
                  /\ IsNone(command.main_noun)
                  /\ IsNone(command.target_noun)
               \/ /\ ~IsNone(command.main_noun)
                  /\ Val(command.main_noun) # ""
                  /\ NoneOrNonEmpty(command.target_noun)
            /\ \A w \in Worlds :
                  handle_command(w, move_companions(w, get_initial_game_state(w)).st,
                                 command).res
                      # ActionResult("raised", "AssertionError")

\* "give to key" has been parsed without error: the words after the joining
\* word are the main noun, and there is no target noun
C32_Witness ==
    /\ call.fn = "parse_command"
    /\ call.tokens = <<"give", "to", "key">>
    /\ ~IsNone(call_value)
    /\ IsNone(Val(call_value).error)
    /\ Val(call_value).main_noun = Some("key")
    /\ IsNone(Val(call_value).target_noun)

---------------------------------------------------------------------------
(* Consumed items over the rest of the session *)

\* the ids in the inventory or in the item list of some location
Present(s) ==
    Range(s.inventory) \cup UNION { Range(s.location_items[i].v) : i \in DOMAIN s.location_items }

\* the items removed by a consuming interaction that returned OK: the
\* interaction has been applied (apply_interaction records its id) and its
\* message is a plain string, which resolve_text returns in every state
ConsumedItems(w, s) ==
    { w.interactions[i].v.item :
        i \in { j \in DOMAIN w.interactions :
                  /\ w.interactions[j].k \in s.completed_interactions
                  /\ w.interactions[j].v.consumes
                  /\ TextTruthy(w.interactions[j].v.message)
                  /\ Val(w.interactions[j].v.message).kind = "str" } }

(* C33: once an item has been removed by a consuming interaction that        *)
(* returned OK, in every later state its id is neither in the inventory nor  *)
(* in the item list of any location.                                         *)
C33_ConsumedItemStaysGone ==
    ConsumedItems(world, state) \cap Present(state) = {}

---------------------------------------------------------------------------
(* look and go: the exits *)

\* the text ends with the given words
EndsWith(s, sub) == Len(s) >= Len(sub) /\ SubSeq(s, Len(s) - Len(sub) + 1, Len(s)) = sub

\* the description lists the direction among its exits: "Exits: " is followed
\* by the entries "<direction>" or "<direction> - <description>", joined by ", "
ListsExit(message, direction) ==
    \E before \in {"Exits: ", ", "} :
        \/ Contains(message, before \o direction \o " - ")
        \/ Contains(message, before \o direction \o ", ")
        \/ EndsWith(message, before \o direction)

(* C34: in every session state and for every direction d, the output of     *)
(* look lists d among the exits if and only if go d returns OK in that       *)
(* state.                                                                    *)
C34_ListedIffGoSucceeds ==
    \A d \in Directions(world) :
        (/\ describe_current_location(world, state).res.status = "ok"
         /\ ListsExit(describe_current_location(world, state).res.message, d))
            <=> handle_go(world, state, d).res.status = "ok"

---------------------------------------------------------------------------
(* The commands that only read the state *)

\* the inputs parse_command reads as look, inventory or examine
ReadingInputs(w) ==
    { raw \in RawInputs(w) :
        /\ IsNone(Parsed(raw).error)
        /\ Parsed(raw).verb \in {Some("look"), Some("inventory"), Some("examine")} }

(* C35: look, inventory and examine leave the session state as it was:       *)
(* location id, inventory, flags, item lists of the locations and completed  *)
(* interactions are the same after the call as before, whether it returns    *)
(* OK, returns INVALID or raises.                                            *)
C35_ReadingCommandsKeepState ==
    /\ \A raw \in ReadingInputs(world) : handle_raw_command(world, state, raw).st = state
    /\ describe_current_location(world, state).st = state
    /\ handle_inventory(world, state).st = state
    /\ \A noun \in Nouns(world) : handle_examine(world, state, noun).st = state

\* examine has just returned OK for an item carried in a session that has
\* applied an interaction
C35_Witness ==
    /\ ~IsNone(last_command)
    /\ Val(last_command).verb = Some("examine")
    /\ result = Some(handle_examine(world, state, Val(Val(last_command).main_noun)).res)
    /\ Val(result).status = "ok"
    /\ state.inventory # <<>>
    /\ state.completed_interactions # {}

---------------------------------------------------------------------------
(* Reachable states of a world validate() reports no issue for *)

(* C36: for a world on which validate() reports no issue, in every reachable *)
(* state location_id is a key of world.locations and of                      *)
(* state.location_items, so that current_location() and                      *)
(* current_location_items() do not fail: look raises no KeyError.            *)
C36_LocationIsDeclared ==
    Valid(world) =>
        /\ Has(world.locations, state.location_id)
        /\ Has(state.location_items, state.location_id)
        /\ describe_current_location(world, state).res # ActionResult("raised", "KeyError")

\* on such a world a go has just returned OK and the player is no longer at
\* the start location
C36_Witness ==
    /\ Valid(world)
    /\ ~IsNone(last_command)
    /\ Val(last_command).verb = Some("go")
    /\ ~IsNone(result)
    /\ Val(result).status = "ok"
    /\ state.location_id # world.world.start

(* C37: for a world on which validate() reports no issue, in every reachable *)
(* state every id in the inventory is a declared item marked portable.       *)
C37_InventoryIsPortable ==
    Valid(world) =>
        \A i \in DOMAIN state.inventory :
            /\ Has(world.items, state.inventory[i])
            /\ Get(world.items, state.inventory[i]).portable

\* on such a world the player carries an item and has just been refused an
\* item that is not portable
C37_Witness ==
    /\ Valid(world)
    /\ state.inventory # <<>>
    /\ ~IsNone(last_command)
    /\ Val(last_command).verb = Some("take")
    /\ ~IsNone(result)
    /\ Val(result).status = "no_effect"

---------------------------------------------------------------------------
(* Repeatable interactions *)

\* the interactions of verb talk written for the item whose criteria is
\* satisfied, in declaration order
TalkMatching(w, s, item_id) ==
    { i \in DOMAIN w.interactions :
        /\ w.interactions[i].v.verb = "talk"
        /\ w.interactions[i].v.item = item_id
        /\ IsNone(w.interactions[i].v.target)
        /\ is_criteria_satisfied(w, s, w.interactions[i].v.criteria) }

(* C38: a repeatable interaction is never answered with "You already did     *)
(* that.": a command whose nouns resolve and whose first matching            *)
(* interaction, criteria satisfied, is repeatable returns OK and leaves the  *)
(* state apply_interaction gives, whether or not the interaction is in       *)
(* completed_interactions already; so does talk <npc> for a repeatable       *)
(* interaction of verb talk.                                                 *)
C38_RepeatableIsReapplied ==
    /\ \A command \in Commands(world) :
          (/\ Resolves(world, state, command)
           /\ Matching(world, state, command) # {}
           /\ FirstMatching(world, state, command).v.repeatable)
              => /\ handle_command(world, state, command).res.status = "ok"
                 /\ handle_command(world, state, command).st
                        = apply_interaction(world, state,
                                            FirstMatching(world, state, command).k,
                                            FirstMatching(world, state, command).v)
    /\ \A i \in DOMAIN world.interactions :
          LET x == world.interactions[i]
              noun == Lower(Get(world.items, x.v.item).name)
              out == handle_command(world, state, TalkCommand(noun))
          IN  (/\ x.v.verb = "talk"
               /\ x.v.repeatable
               /\ Has(world.items, x.v.item)
               /\ Answering(world, current_location_items(state), noun) = <<x.v.item>>
               /\ TalkMatching(world, state, x.v.item) # {}
               /\ \A j \in TalkMatching(world, state, x.v.item) : i <= j)
                  => /\ out.res.status = "ok"
                     /\ out.st = apply_interaction(world, state, x.k, x.v)

---------------------------------------------------------------------------
(* go: what a successful move leaves alone *)

\* the ids of the list that are not companions, in the order of the list
NonCompanions(w, s, items) ==
    SelectSeq(items, LAMBDA item_id : item_id \notin Range(companions(w, s)))

(* C39: a go that returns OK leaves inventory, flags and                     *)
(* completed_interactions unchanged, and in the item list of every location  *)
(* the ids that are not companions are the same, in the same order, before   *)
(* and after.                                                                *)
C39_GoMovesCompanionsOnly ==
    \A d \in Directions(world) :
        LET out == handle_go(world, state, d)
        IN  out.res.status = "ok" =>
                /\ out.st.inventory = state.inventory
                /\ out.st.flags = state.flags
                /\ out.st.completed_interactions = state.completed_interactions
                /\ Keys(out.st.location_items) = Keys(state.location_items)
                /\ \A i \in DOMAIN state.location_items :
                      NonCompanions(world, state, out.st.location_items[i].v)
                          = NonCompanions(world, state, state.location_items[i].v)

\* a go has just returned OK and brought the companions along, while another
\* location holds items that are no companions
C39_Witness ==
    /\ ~IsNone(last_command)
    /\ Val(last_command).verb = Some("go")
    /\ ~IsNone(result)
    /\ Val(result).status = "ok"
    /\ companions(world, state) # <<>>
    /\ Range(companions(world, state)) \subseteq Here(state)
    /\ \E i \in DOMAIN state.location_items :
          /\ state.location_items[i].k # state.location_id
          /\ NonCompanions(world, state, state.location_items[i].v) # <<>>

====
